---- MODULE Spec2Model ----
(***************************************************************************)
(* A model of the hybrid extraction pipeline of data-structure-agent:      *)
(*   - OCRCache and OCREngine (src/ocr_engine.py): the recognition cache,  *)
(*     the lazily initialised engine, the single-page recognition call and *)
(*     the batch dispatcher with its thread pool;                          *)
(*   - HybridExtractor.extract (src/extractor.py): the two-pass flow;      *)
(*   - ExamParser.identify_sections (src/parser.py): the segmenter.        *)
(*                                                                         *)
(* Conventions.  A page object is identified by its fingerprint (the md5   *)
(* of its rendering), a number in 1..NumFingerprints.  A recognised text   *)
(* is a natural number: Empty (0) is the empty string "", the only falsy   *)
(* text, and TextOf(f) is the non-empty text the engine reads on a page of *)
(* fingerprint f when it succeeds (the engine may also raise or find       *)
(* nothing).  NoneVal (-1) is Python's None.  Python's 0-based list        *)
(* positions are the 1-based positions of the sequences here.              *)
(***************************************************************************)
EXTENDS Integers, Sequences, FiniteSets, TLC

\* ------------------------------------------------------------------ bounds
MaxPages == 2
MaxRequests == 2
NumFingerprints == 2
MaxDocPages == 3
MaxSegPages == 2
SmallMaxContentLength == 12
MaxDocuments == 2
MaxTextLength == 201
MaxPoolPages == 5
MaxCleanLength == 5

\* ------------------------------------------------------- program constants
NoneVal == -1
Empty == 0
max_workers == 4
quality_threshold_num == 3      \* quality_threshold = 0.3 = 3 / 10
quality_threshold_den == 10
min_chars == 50
MIN_CONTENT_LENGTH == 10
MAX_CONTENT_LENGTH == 800

Fingerprints == 1..NumFingerprints

\* The text the engine reads on a page, when it reads one: determined by the
\* page's content, hence by its fingerprint.
TextOf(f) == f

VARIABLES
    cache,              \* OCRCache: fingerprint -> pickled text, NoneVal when no file
    available,          \* PADDLEOCR_AVAILABLE
    ocr,                \* OCREngine.ocr is set (not None)
    pc,                 \* position of the calling thread
    pages,              \* argument pages of the current request
    use_cache,          \* argument use_cache of the current request
    cached_results,     \* local cached_results: sequence of <<index, text>>
    remaining_indices,  \* local remaining_indices
    results,            \* local results: NoneVal in a slot not yet assigned
    fut,                \* future_to_index: miss index -> state of its future
    ret,                \* the list the last request returned
    nreq,               \* number of requests made so far
    recognized,         \* fingerprints self.ocr.ocr was invoked on, by a request with
                        \* the cache enabled, since the cache was last cleared
    recognizedAgain,    \* ... and those it was invoked on more than once
    \* HybridExtractor.extract
    pdf_exists,         \* config.pdf_path.exists()
    doc,                \* pdf.pages: per page its native text and its fingerprint
    xpc,                \* position in extract
    xpages,             \* local pages: the page dicts built so far
    ocr_pages_indices,  \* local ocr_pages_indices
    ocr_pages,          \* local ocr_pages
    \* ExamParser.identify_sections
    pages_text,         \* argument pages_text: per page its lines (text.split) and source
    spc,                \* position in identify_sections
    cursor,             \* <<page, line>> of the next line to read
    sections,           \* local sections
    current_paper,      \* local current_paper, NoneStr for None
    current_type,       \* local current_type, NoneStr for None
    current_content,    \* local current_content
    current_source,     \* local current_source
    \* ExamParser.extract_questions_from_section
    section,            \* argument section
    max_content_length, \* config.max_content_length
    ocr_question_patterns,  \* config.OCR_QUESTION_PATTERNS, when the config has it
    qpc,                \* position in extract_questions_from_section
    patterns_to_use,    \* local patterns_to_use
    pattern_idx,        \* place in patterns_to_use of the pattern of the outer loop
    match_pos,          \* where re.finditer looks for its next match
    questions,          \* local questions
    q_trace,            \* per record of questions: its pattern's place and its
                        \* cleaned content before truncation (history)
    \* OCRCache and its storage
    storage_fails,      \* whether fingerprinting or the cache directory fails now
    last_call,          \* the last direct call of OCRCache.get, set or clear
    last_set,           \* per fingerprint the text of the most recent set since
                        \* the last clear, NoneVal without one (history)
    faulted,            \* whether a storage error has occurred (history)
    \* main: process_single_pdf and process_batch
    mode,               \* "single" (--pdf) or "batch" (--batch)
    present,            \* per document whether its path exists now
    nested,             \* per document whether it lies below the input directory
    pdf_files,          \* local pdf_files of process_batch; the one path of --pdf
    mpc,                \* position in main
    file_idx,           \* place in pdf_files of the document being processed
    batch_results,      \* local results of process_batch: success and failed
    exit_code,          \* what main returns, NoneVal before it returns
    stages_run,         \* per document the pipeline steps run for it (history)
    missing_reports,    \* per document how often it was reported missing (history)
    calls,              \* per document the calls of process_single_pdf (history)
    \* OCREngine.assess_text_quality
    assessed_text,      \* argument text of assess_text_quality
    quality,            \* the dict returned, NotAssessed before the return
    \* progress reporting of extract_text_from_pages_batch
    show_progress,      \* argument show_progress
    printed,            \* how many progress messages the batch has printed
    \* ExamParser._clean_ocr_content
    clean_arg,          \* argument content of the first call
    clean_ret           \* the values returned by the calls made so far, each
                        \* call after the first given the value of the one before

bvars == <<cache, available, ocr, pc, pages, use_cache, cached_results,
           remaining_indices, results, fut, ret, nreq, recognized, recognizedAgain>>

xvars == <<pdf_exists, doc, xpc, xpages, ocr_pages_indices, ocr_pages>>

svars == <<pages_text, spc, cursor, sections, current_paper, current_type,
           current_content, current_source>>

qvars == <<section, max_content_length, ocr_question_patterns, qpc, patterns_to_use,
           pattern_idx, match_pos, questions, q_trace>>

cvars == <<storage_fails, last_call, last_set, faulted>>

mvars == <<mode, present, nested, pdf_files, mpc, file_idx, batch_results,
           exit_code, stages_run, missing_reports, calls>>

avars == <<assessed_text, quality>>

pvars == <<show_progress, printed>>

kvars == <<clean_arg, clean_ret>>

vars == <<bvars, xvars, svars, qvars, cvars, mvars, avars, pvars, kvars>>

\* ------------------------------------------------------------------ helpers
Range(s) == {s[i] : i \in DOMAIN s}

SeqsUpTo(S, n) == UNION {[1..k -> S] : k \in 0..n}

\* Python truthiness of an Optional[str]: None and "" are falsy.
Truthy(v) == v # NoneVal /\ v # Empty

\* A get whose body is not inside try/except.
GetOutcomeUnguarded(c, page, fails) ==
    IF fails THEN [val |-> NoneVal, raised |-> TRUE]
    ELSE [val |-> c[page], raised |-> FALSE]

\* OCRCache.get (lines 52-63): the pickled text of the page's fingerprint;
\* None when there is no file, and when anything in the try block raised
\* (_get_cache_key, open, pickle.load).
GetOutcome(c, page, fails) ==
    IF fails THEN [val |-> NoneVal, raised |-> FALSE]
    ELSE [val |-> c[page], raised |-> FALSE]

\* A set that writes an entry once and keeps it afterwards.
SetOutcomeWriteOnce(c, page, text, fails) ==
    IF fails \/ c[page] # NoneVal THEN [cache |-> c, raised |-> FALSE]
    ELSE [cache |-> [c EXCEPT ![page] = text], raised |-> FALSE]

\* OCRCache.set (lines 65-74): the entry of the page's fingerprint is
\* overwritten; nothing happens when anything in the try block raised.
SetOutcome(c, page, text, fails) ==
    IF fails THEN [cache |-> c, raised |-> FALSE]
    ELSE [cache |-> [c EXCEPT ![page] = text], raised |-> FALSE]

\* self.cache.get(page) as the engine calls it.
CacheGet(c, page) == GetOutcome(c, page, storage_fails).val

\* self.cache.set(page, text) as the engine calls it.
CacheSet(c, page, text) == SetOutcome(c, page, text, storage_fails).cache

\* OCRCache.clear: remove the directory, i.e. every entry.
CacheClear(c) == [f \in DOMAIN c |-> NoneVal]

\* The cache scan of extract_text_from_pages_batch (lines 207-216): the indices
\* below n whose page is a hit, in index order, as <<i, cached>> pairs.
RECURSIVE ScanHits(_, _, _, _)
ScanHits(c, ps, uc, n) ==
    IF n = 0 \/ ~uc THEN <<>>
    ELSE LET rest == ScanHits(c, ps, uc, n - 1)
             cached == CacheGet(c, ps[n])
         IN IF Truthy(cached) THEN Append(rest, <<n, cached>>) ELSE rest

\* A scan that queues every page for recognition, cached or not.
ScanMissesAll(c, ps, uc, n) == IF uc THEN [i \in 1..n |-> i] ELSE <<>>

\* ... and the indices whose page is a miss, in index order.
RECURSIVE ScanMisses(_, _, _, _)
ScanMisses(c, ps, uc, n) ==
    IF n = 0 \/ ~uc THEN <<>>
    ELSE LET rest == ScanMisses(c, ps, uc, n - 1)
             cached == CacheGet(c, ps[n])
         IN IF Truthy(cached) THEN rest ELSE Append(rest, n)

\* A sort of the cached results on their text instead of their index.
RECURSIVE SortedByText(_)
SortedByText(cr) ==
    IF cr = <<>> THEN <<>>
    ELSE LET m == CHOOSE k \in DOMAIN cr : \A j \in DOMAIN cr : cr[k][2] <= cr[j][2]
             rest == [j \in 1..(Len(cr) - 1) |-> IF j < m THEN cr[j] ELSE cr[j + 1]]
         IN <<cr[m][2]>> \o SortedByText(rest)

\* sorted(cached_results, key=lambda x: x[0]) projected on the text (line 223).
RECURSIVE SortedByIndex(_)
SortedByIndex(cr) ==
    IF cr = <<>> THEN <<>>
    ELSE LET m == CHOOSE k \in DOMAIN cr : \A j \in DOMAIN cr : cr[k][1] <= cr[j][1]
             rest == [j \in 1..(Len(cr) - 1) |-> IF j < m THEN cr[j] ELSE cr[j + 1]]
         IN <<cr[m][2]>> \o SortedByIndex(rest)

\* results = [None] * len(pages), then the cached results filled in (226-230).
InitialResults(ps, cr) ==
    [i \in 1..Len(ps) |->
        IF \E k \in DOMAIN cr : cr[k][1] = i
        THEN cr[CHOOSE k \in DOMAIN cr : cr[k][1] = i][2]
        ELSE NoneVal]

\* What the cache directory can hold: it outlives the process, and the only
\* writes are of non-empty recognised texts (lines 179-180 and 251-252).
CacheContents ==
    {c \in [Fingerprints -> {NoneVal} \cup {TextOf(f) : f \in Fingerprints}] :
        \A f \in Fingerprints : c[f] \in {NoneVal, TextOf(f)}}

\* ------------------------------------------------------------------ initial state
\* The engine after OCREngine.__init__, before any request.
InitEngine ==
    /\ cache \in CacheContents
    /\ available \in BOOLEAN
    /\ ocr = FALSE
    /\ pc = "idle"
    /\ pages = <<>>
    /\ use_cache = TRUE
    /\ cached_results = <<>>
    /\ remaining_indices = <<>>
    /\ results = <<>>
    /\ fut = <<>>
    /\ ret = <<>>
    /\ nreq = 0
    /\ recognized = {}
    /\ recognizedAgain = {}

\* No document is being extracted.
NoExtraction ==
    /\ pdf_exists = TRUE
    /\ doc = <<>>
    /\ xpc = "none"
    /\ xpages = <<>>
    /\ ocr_pages_indices = <<>>
    /\ ocr_pages = <<>>

\* No page stream is being segmented.
NoSegmentation ==
    /\ pages_text = <<>>
    /\ spc = "none"
    /\ cursor = <<1, 1>>
    /\ sections = <<>>
    /\ current_paper = <<>>
    /\ current_type = <<>>
    /\ current_content = <<>>
    /\ current_source = "pdfplumber"

\* No section is being searched for questions.
NoQuestions ==
    /\ section = [paper |-> <<>>, type |-> <<>>, content |-> <<>>, source |-> "pdfplumber"]
    /\ max_content_length = MAX_CONTENT_LENGTH
    /\ ocr_question_patterns = [defined |-> FALSE, list |-> <<>>]
    /\ qpc = "none"
    /\ patterns_to_use = <<>>
    /\ pattern_idx = 0
    /\ match_pos = 1
    /\ questions = <<>>
    /\ q_trace = <<>>

\* No direct call of the cache has been made and its storage works.
NoCacheCall == [op |-> "none", page |-> 0, text |-> NoneVal, val |-> NoneVal,
                raised |-> FALSE, failed |-> FALSE]

StorageWorks ==
    /\ storage_fails = FALSE
    /\ last_call = NoCacheCall
    /\ last_set = [f \in Fingerprints |-> NoneVal]
    /\ faulted = FALSE

\* assess_text_quality has not been called.
NotAssessed == [char_count |-> NoneVal, num |-> NoneVal, den |-> NoneVal]

NoAssessment ==
    /\ assessed_text = [kind |-> "native", n |-> 0, c |-> 0, k |-> FALSE]
    /\ quality = NotAssessed

\* No batch has been asked to report its progress.
NoProgress ==
    /\ show_progress = FALSE
    /\ printed = 0

\* _clean_ocr_content has not been called.
NoCleaning ==
    /\ clean_arg = <<>>
    /\ clean_ret = <<>>

\* main has not been started.
NoRun ==
    /\ mode = "single"
    /\ present = <<>>
    /\ nested = <<>>
    /\ pdf_files = <<>>
    /\ mpc = "idle"
    /\ file_idx = 0
    /\ batch_results = [success |-> <<>>, failed |-> <<>>]
    /\ exit_code = NoneVal
    /\ stages_run = <<>>
    /\ missing_reports = <<>>
    /\ calls = <<>>

Init == InitEngine /\ NoExtraction /\ NoSegmentation /\ NoQuestions /\ StorageWorks /\ NoRun
        /\ NoAssessment /\ NoProgress /\ NoCleaning

\* ------------------------------------------------------------------ futures
Future(st, val, exc) == [st |-> st, val |-> val, exc |-> exc]

\* The futures whose call occupies a pool thread.
Running == {i \in DOMAIN fut : fut[i].st \in {"constructing", "ready"}}

Idle == pc \in {"idle", "returned", "returned_page"}

\* ------------------------------------------------------------------ the batch
\* extract_text_from_pages_batch up to the submission of the misses (203-242).
CallBody(ps, uc) ==
    LET hits == ScanHits(cache, ps, uc, Len(ps))
        misses == ScanMisses(cache, ps, uc, Len(ps))
    IN /\ pages' = ps
       /\ use_cache' = uc
       /\ nreq' = nreq + 1
       /\ IF ps = <<>>
          THEN /\ ret' = <<>>
               /\ pc' = "returned"
               /\ cached_results' = <<>>
               /\ remaining_indices' = <<>>
               /\ results' = <<>>
               /\ fut' = <<>>
          ELSE /\ cached_results' = hits
               /\ remaining_indices' = misses
               /\ IF misses = <<>>
                  THEN /\ ret' = SortedByIndex(hits)
                       /\ pc' = "returned"
                       /\ results' = <<>>
                       /\ fut' = <<>>
                  ELSE /\ results' = InitialResults(ps, hits)
                       /\ fut' = [i \in Range(misses) |-> Future("queued", NoneVal, FALSE)]
                       /\ pc' = "collect"
                       /\ ret' = <<>>
       /\ UNCHANGED <<cache, available, ocr, recognized, recognizedAgain>>

Call ==
    /\ Idle
    /\ nreq < MaxRequests
    /\ \E ps \in SeqsUpTo(Fingerprints, MaxPages), uc \in BOOLEAN : CallBody(ps, uc)

\* Calls submitted with the default of the parameter use_cache (line 138).
WorkerUseCacheDefault == TRUE

\* The use_cache argument of the calls the batch submits (line 240:
\* executor.submit(self.extract_text_from_page, page, False)).
WorkerUseCache == FALSE

\* Lines 150-154 in a submitted call: with use_cache the call returns the
\* cached text of its page, if there is one, without recognising anything.
WorkerHit(i) == WorkerUseCache /\ Truthy(CacheGet(cache, pages[i]))

\* A pool that starts every queued call at once.
WorkerEnterUnbounded(i) ==
    /\ fut[i].st = "queued"
    /\ IF WorkerHit(i)
       THEN fut' = [fut EXCEPT ![i] = Future("done", CacheGet(cache, pages[i]), FALSE)]
       ELSE \/ fut' = [fut EXCEPT ![i] = Future("done", Empty, TRUE)]
            \/ /\ available
               /\ fut' = [fut EXCEPT ![i].st = IF ocr THEN "ready" ELSE "constructing"]
    /\ UNCHANGED <<cache, available, ocr, pc, pages, use_cache, cached_results,
                   remaining_indices, results, ret, nreq, recognized, recognizedAgain>>

\* A pool thread takes a queued call (at most max_workers run at a time) and
\* runs extract_text_from_page(page, False), lines 149-166, up to the test of
\* self.ocr in _init_ocr_engine, lines 118-121.  An exception (the rendering
\* fails, PaddleOCR is not installed) is caught at line 186: the call returns "".
WorkerEnter(i) ==
    /\ fut[i].st = "queued"
    /\ Cardinality(Running) < max_workers
    /\ IF WorkerHit(i)
       THEN fut' = [fut EXCEPT ![i] = Future("done", CacheGet(cache, pages[i]), FALSE)]
       ELSE \/ fut' = [fut EXCEPT ![i] = Future("done", Empty, TRUE)]
            \/ /\ available
               /\ fut' = [fut EXCEPT ![i].st = IF ocr THEN "ready" ELSE "constructing"]
    /\ UNCHANGED <<cache, available, ocr, pc, pages, use_cache, cached_results,
                   remaining_indices, results, ret, nreq, recognized, recognizedAgain>>

\* _init_ocr_engine lines 122-136: the constructor returns and self.ocr is
\* assigned, or it raises.
WorkerConstruct(i) ==
    /\ fut[i].st = "constructing"
    /\ \/ /\ ocr' = TRUE
          /\ fut' = [fut EXCEPT ![i].st = "ready"]
       \/ /\ ocr' = ocr
          /\ fut' = [fut EXCEPT ![i] = Future("done", Empty, TRUE)]
    /\ UNCHANGED <<cache, available, pc, pages, use_cache, cached_results,
                   remaining_indices, results, ret, nreq, recognized, recognizedAgain>>

\* Lines 167-188: self.ocr.ocr(...) raises, finds nothing, or yields a text,
\* which the call writes to the cache when it was submitted with use_cache
\* (lines 179-180).
WorkerRecognize(i) ==
    /\ fut[i].st = "ready"
    /\ recognized' = IF use_cache THEN recognized \cup {pages[i]} ELSE recognized
    /\ recognizedAgain' = IF use_cache
                          THEN recognizedAgain \cup ({pages[i]} \cap recognized)
                          ELSE recognizedAgain
    /\ \/ /\ fut' = [fut EXCEPT ![i] = Future("done", Empty, TRUE)]
          /\ cache' = cache
       \/ \E t \in {Empty, TextOf(pages[i])} :
             /\ fut' = [fut EXCEPT ![i] = Future("done", t, FALSE)]
             /\ cache' = IF WorkerUseCache /\ Truthy(t)
                         THEN CacheSet(cache, pages[i], t)
                         ELSE cache
    /\ UNCHANGED <<available, ocr, pc, pages, use_cache, cached_results,
                   remaining_indices, results, ret, nreq>>

\* A loop that writes every result to the slot of the first miss.
SlotOfFirstMiss(i) == remaining_indices[1]

\* The slot a collected result is written to (line 246: future_to_index[future]).
SlotOf(i) == i

\* An iteration that writes every result back, the empty ones too.
CollectWritingAll(i) ==
    /\ pc = "collect"
    /\ fut[i].st = "done"
    /\ results' = [results EXCEPT ![SlotOf(i)] = fut[i].val]
    /\ cache' = IF use_cache
                THEN CacheSet(cache, pages[SlotOf(i)], fut[i].val)
                ELSE cache
    /\ fut' = [fut EXCEPT ![i].st = "collected"]
    /\ UNCHANGED <<available, ocr, pc, pages, use_cache, cached_results,
                   remaining_indices, ret, nreq, recognized, recognizedAgain>>

\* One iteration of the as_completed loop (lines 245-256) for a finished call.
Collect(i) ==
    /\ pc = "collect"
    /\ fut[i].st = "done"
    /\ results' = [results EXCEPT ![SlotOf(i)] = fut[i].val]
    /\ cache' = IF Truthy(fut[i].val) /\ use_cache
                THEN CacheSet(cache, pages[SlotOf(i)], fut[i].val)
                ELSE cache
    /\ fut' = [fut EXCEPT ![i].st = "collected"]
    /\ UNCHANGED <<available, ocr, pc, pages, use_cache, cached_results,
                   remaining_indices, ret, nreq, recognized, recognizedAgain>>

\* A return that does not wait for the calls still running.
ReturnEarly ==
    /\ pc = "collect"
    /\ ret' = results
    /\ pc' = "returned"
    /\ UNCHANGED <<cache, available, ocr, pages, use_cache, cached_results,
                   remaining_indices, results, fut, nreq, recognized, recognizedAgain>>

\* The loop and the executor have ended: return results (line 265).
Return ==
    /\ pc = "collect"
    /\ \A i \in DOMAIN fut : fut[i].st = "collected"
    /\ ret' = results
    /\ pc' = "returned"
    /\ UNCHANGED <<cache, available, ocr, pages, use_cache, cached_results,
                   remaining_indices, results, fut, nreq, recognized, recognizedAgain>>

\* What one direct call of extract_text_from_page(page, uc) can do (138-188):
\* hit: the cached text is returned at line 154; otherwise called says whether
\* self.ocr.ocr was reached (the engine is then initialised) and val is the
\* text returned, "" when anything raised (line 188) or nothing was read (184).
PageOutcomes(page, uc) ==
    IF uc /\ Truthy(CacheGet(cache, page))
    THEN {[hit |-> TRUE, called |-> FALSE, val |-> CacheGet(cache, page)]}
    ELSE {[hit |-> FALSE, called |-> FALSE, val |-> Empty]} \cup
         (IF available
          THEN {[hit |-> FALSE, called |-> TRUE, val |-> v] : v \in {Empty, TextOf(page)}}
          ELSE {})

\* extract_text_from_page called directly, on the calling thread.
SinglePage ==
    /\ Idle
    /\ nreq < MaxRequests
    /\ \E page \in Fingerprints, uc \in BOOLEAN :
         \E o \in PageOutcomes(page, uc) :
            /\ pages' = <<page>>
            /\ use_cache' = uc
            /\ ret' = <<o.val>>
            /\ ocr' = (ocr \/ o.called)
            /\ recognized' = IF uc /\ o.called THEN recognized \cup {page} ELSE recognized
            /\ recognizedAgain' = IF uc /\ o.called
                                  THEN recognizedAgain \cup ({page} \cap recognized)
                                  ELSE recognizedAgain
            /\ cache' = IF uc /\ o.called /\ Truthy(o.val)
                        THEN CacheSet(cache, page, o.val)
                        ELSE cache
    /\ pc' = "returned_page"
    /\ nreq' = nreq + 1
    /\ cached_results' = <<>>
    /\ remaining_indices' = <<>>
    /\ results' = <<>>
    /\ fut' = <<>>
    /\ UNCHANGED available

\* OCREngine.clear_cache (lines 305-308).
ClearCache ==
    /\ Idle
    /\ cache' = CacheClear(cache)
    /\ recognized' = {}
    /\ recognizedAgain' = {}
    /\ UNCHANGED <<available, ocr, pc, pages, use_cache, cached_results,
                   remaining_indices, results, fut, ret, nreq>>

Next ==
    \/ Call /\ UNCHANGED <<xvars, svars, qvars, cvars, mvars, avars, pvars, kvars>>
    \/ \E i \in DOMAIN fut : WorkerEnter(i) /\ UNCHANGED <<xvars, svars, qvars, cvars, mvars, avars, pvars, kvars>>
    \/ \E i \in DOMAIN fut : WorkerConstruct(i) /\ UNCHANGED <<xvars, svars, qvars, cvars, mvars, avars, pvars, kvars>>
    \/ \E i \in DOMAIN fut : WorkerRecognize(i) /\ UNCHANGED <<xvars, svars, qvars, cvars, mvars, avars, pvars, kvars>>
    \/ \E i \in DOMAIN fut : Collect(i) /\ UNCHANGED <<xvars, svars, qvars, cvars, mvars, avars, pvars, kvars>>
    \/ Return /\ UNCHANGED <<xvars, svars, qvars, cvars, mvars, avars, pvars, kvars>>
    \/ SinglePage /\ UNCHANGED <<xvars, svars, qvars, cvars, mvars, avars, pvars, kvars>>
    \/ ClearCache /\ UNCHANGED <<xvars, svars, qvars, cvars, mvars, avars, pvars, kvars>>

Spec == Init /\ [][Next]_vars

\* ------------------------------------------------------------------ quality
\* A native text is described by what assess_text_quality reads of it: n its
\* length, c its number of characters in U+4E00..U+9FFF, k whether one of the
\* structure keywords occurs in it.  Every keyword is made of such
\* characters, so k implies c >= 1; and c <= n.
NativeText(n, c, k) == [kind |-> "native", n |-> n, c |-> c, k |-> k]

\* A text read by the engine, as page text.
OcrText(t) == [kind |-> "ocr", val |-> t]

\* The native texts documents are made of: the empty text, and texts at and
\* next to the two thresholds.
NativeTexts ==
    { NativeText(0, 0, FALSE),
      NativeText(49, 49, TRUE),
      NativeText(50, 50, TRUE),
      NativeText(150, 75, FALSE),
      NativeText(150, 74, FALSE) }

Min(a, b) == IF a <= b THEN a ELSE b

\* An assessment without the test of the empty text.
AssessTextQualityUnguarded(t) ==
    [char_count |-> t.n,
     num |-> Min(10 * t.c * t.n, 2000 * t.n) + 1500 * t.c
             + (IF t.k THEN 1500 * t.n ELSE 0),
     den |-> 5000 * t.n]

\* assess_text_quality (lines 267-303).  The score is the fraction num / den:
\*   min(c / 500, 0.4) + (c / n) * 0.3 + (0.3 if k else 0)
\* over the common denominator 5000 * n; the empty text scores 0.
AssessTextQuality(t) ==
    IF t.n = 0
    THEN [char_count |-> 0, num |-> 0, den |-> 1]
    ELSE [char_count |-> t.n,
          num |-> Min(10 * t.c * t.n, 2000 * t.n) + 1500 * t.c
                  + (IF t.k THEN 1500 * t.n ELSE 0),
          den |-> 5000 * t.n]

\* A page is flagged when it scores within the threshold or is too short.
NeedsOcrInclusive(q) ==
    \/ q.num * quality_threshold_den <= quality_threshold_num * q.den
    \/ q.char_count <= min_chars

\* A page is flagged only when it both scores low and is too short.
NeedsOcrBothLow(q) ==
    /\ q.num * quality_threshold_den < quality_threshold_num * q.den
    /\ q.char_count < min_chars

\* needs_ocr (extractor.py lines 101-104).
NeedsOcr(q) ==
    \/ q.num * quality_threshold_den < quality_threshold_num * q.den
    \/ q.char_count < min_chars

\* ------------------------------------------------------------------ extract
\* The fingerprint of the page at position j of a document: the renderings of
\* a document's pages differ from each other as far as there are fingerprints.
DocFingerprint(j) == ((j - 1) % NumFingerprints) + 1

Docs ==
    UNION {{[j \in 1..len |-> [text |-> ts[j], fp |-> DocFingerprint(j)]] :
               ts \in [1..len -> NativeTexts]} : len \in 0..MaxDocPages}

\* A pass 1 that numbers the pages by enumerate's i, without the + 1.
Pass1PagesZeroBased(d, len) ==
    [j \in 1..len |->
        [page_num |-> j - 1,
         text |-> d[j].text,
         source |-> IF NeedsOcr(AssessTextQuality(d[j].text))
                    THEN "pending_ocr" ELSE "pdfplumber"]]

\* Pass 1 (lines 97-120): one dict per page, in page order.  Position j here is
\* enumerate's i = j - 1, so 'page_num': i + 1 is (j - 1) + 1.
Pass1Pages(d, len) ==
    [j \in 1..len |->
        [page_num |-> (j - 1) + 1,
         text |-> d[j].text,
         source |-> IF NeedsOcr(AssessTextQuality(d[j].text))
                    THEN "pending_ocr" ELSE "pdfplumber"]]

\* A pass 1 that queues every page for the dispatcher.
Pass1IndicesAll(d, len) == [j \in 1..len |-> j]

\* The positions pass 1 appends to ocr_pages_indices, in page order.
RECURSIVE Pass1Indices(_, _)
Pass1Indices(d, len) ==
    IF len = 0 THEN <<>>
    ELSE IF NeedsOcr(AssessTextQuality(d[len].text))
         THEN Append(Pass1Indices(d, len - 1), len)
         ELSE Pass1Indices(d, len - 1)

\* extract up to the end of pass 1 (lines 83-125).
XPass1 ==
    /\ xpc = "start"
    /\ IF pdf_exists
       THEN /\ xpages' = Pass1Pages(doc, Len(doc))
            /\ ocr_pages_indices' = Pass1Indices(doc, Len(doc))
            /\ ocr_pages' = [k \in DOMAIN ocr_pages_indices' |->
                                doc[ocr_pages_indices'[k]].fp]
            /\ xpc' = "assessed"
       ELSE /\ xpc' = "raised"
            /\ UNCHANGED <<xpages, ocr_pages_indices, ocr_pages>>
    /\ UNCHANGED <<pdf_exists, doc>>
    /\ UNCHANGED <<bvars, svars, qvars, cvars, mvars, avars, pvars, kvars>>

\* Lines 128-134 and 143-161: the flagged pages go to the dispatcher in one
\* call; with none flagged extract returns the pages of pass 1.
XDispatch ==
    /\ xpc = "assessed"
    /\ IF ocr_pages # <<>>
       THEN /\ CallBody(ocr_pages, TRUE)
            /\ xpc' = "batch"
       ELSE /\ xpc' = "done"
            /\ UNCHANGED bvars
    /\ UNCHANGED <<pdf_exists, doc, xpages, ocr_pages_indices, ocr_pages>>
    /\ UNCHANGED <<svars, qvars, cvars, mvars, avars, pvars, kvars>>

\* The dict a merged page is left with when the fallback branch is missing.
MergedPageKeepPending(p, ocr_text) ==
    IF Truthy(ocr_text)
    THEN [p EXCEPT !.text = OcrText(ocr_text), !.source = "ocr"]
    ELSE p

\* Lines 138-142: the dict of a flagged page after its result is merged.
MergedPage(p, ocr_text) ==
    IF Truthy(ocr_text)
    THEN [p EXCEPT !.text = OcrText(ocr_text), !.source = "ocr"]
    ELSE [p EXCEPT !.source = "pdfplumber_fallback"]

\* A merge that writes the k-th result to the k-th page of the document.
MergeTargetByPosition(indices, k) == k

\* Line 137: the page the k-th result belongs to, zip(ocr_pages_indices, ocr_texts).
MergeTarget(indices, k) == indices[k]

\* The pages after the first k pairs of the zip are merged.
RECURSIVE MergeResults(_, _, _, _)
MergeResults(ps, indices, texts, k) ==
    IF k = 0 THEN ps
    ELSE LET before == MergeResults(ps, indices, texts, k - 1)
             target == MergeTarget(indices, k)
         IN [before EXCEPT ![target] = MergedPage(before[target], texts[k])]

\* Lines 136-161: the results are merged and extract returns.
XMerge ==
    /\ xpc = "batch"
    /\ pc = "returned"
    /\ xpages' = MergeResults(xpages, ocr_pages_indices, ret,
                              Min(Len(ocr_pages_indices), Len(ret)))
    /\ xpc' = "done"
    /\ UNCHANGED <<pdf_exists, doc, ocr_pages_indices, ocr_pages>>
    /\ UNCHANGED <<bvars, svars, qvars, cvars, mvars, avars, pvars, kvars>>

InitExtract ==
    /\ InitEngine
    /\ pdf_exists \in BOOLEAN
    /\ doc \in Docs
    /\ xpc = "start"
    /\ xpages = <<>>
    /\ ocr_pages_indices = <<>>
    /\ ocr_pages = <<>>
    /\ NoSegmentation
    /\ NoQuestions
    /\ StorageWorks
    /\ NoRun
    /\ NoAssessment
    /\ NoProgress
    /\ NoCleaning

NextExtract ==
    \/ XPass1
    \/ XDispatch
    \/ \E i \in DOMAIN fut : WorkerEnter(i) /\ UNCHANGED <<xvars, svars, qvars, cvars, mvars, avars, pvars, kvars>>
    \/ \E i \in DOMAIN fut : WorkerConstruct(i) /\ UNCHANGED <<xvars, svars, qvars, cvars, mvars, avars, pvars, kvars>>
    \/ \E i \in DOMAIN fut : WorkerRecognize(i) /\ UNCHANGED <<xvars, svars, qvars, cvars, mvars, avars, pvars, kvars>>
    \/ \E i \in DOMAIN fut : Collect(i) /\ UNCHANGED <<xvars, svars, qvars, cvars, mvars, avars, pvars, kvars>>
    \/ Return /\ UNCHANGED <<xvars, svars, qvars, cvars, mvars, avars, pvars, kvars>>
    \/ XMerge

SpecExtract == InitExtract /\ [][NextExtract]_vars

\* ------------------------------------------------------------------ lines
\* A string is the sequence of its characters.  A character is written by an
\* ASCII name: the romanisation of a CJK character ("juan" is U+5377, "yi"
\* U+4E00, "er" U+4E8C, "ba" U+516B, "di" U+7B2C, "xuan" "ze" U+9009 U+62E9,
\* "tian" "kong" U+586B U+7A7A, "ti" U+9898, "mu" U+76EE, "nei" "rong"
\* U+5185 U+5BB9), "dun" for the enumeration comma U+3001, and itself for an
\* ASCII character.  NoneStr stands for None, which like "" is falsy.
NoneStr == <<>>
Unknown == <<"U", "n", "k", "n", "o", "w", "n">>

\* [yi er san si wu liu qi] of PAPER_PATTERN and the class of TYPE_PATTERN.
PaperNumerals == {"yi", "er", "san", "si", "wu", "liu", "qi"}
TypeNumerals == PaperNumerals \cup {"ba", "jiu", "shi"}
Whitespace == {" "}

\* str.strip(): the line without its leading and trailing whitespace.
RECURSIVE Strip(_)
Strip(line) ==
    IF line = <<>> THEN line
    ELSE IF Head(line) \in Whitespace THEN Strip(Tail(line))
    ELSE IF line[Len(line)] \in Whitespace THEN Strip(SubSeq(line, 1, Len(line) - 1))
    ELSE line

\* paper_pattern.search(line), PAPER_PATTERN = 'juan([yi..qi])' (config.py
\* line 81): the places where the pattern matches; search takes the leftmost.
PaperMatches(line) ==
    {i \in 1..(Len(line) - 1) : line[i] = "juan" /\ line[i + 1] \in PaperNumerals}

PaperGroup1(line) ==
    LET i == CHOOSE m \in PaperMatches(line) : \A n \in PaperMatches(line) : m <= n
    IN line[i + 1]

\* Line 70: paper_match and line.startswith('juan').
IsPaperBoundary(line) ==
    /\ PaperMatches(line) # {}
    /\ line # <<>> /\ line[1] = "juan"

\* type_pattern.match(line), TYPE_PATTERN (config.py line 86) =
\*   ^([yi..shi]) dun \s* ([^ dun \n]{2,15}) (?: ti | $ )
\* w is the whitespace \s* takes and m the length of the second group.
TypeMatches(line) ==
    /\ Len(line) >= 2
    /\ line[1] \in TypeNumerals
    /\ line[2] = "dun"
    /\ \E w \in 0..Len(line), m \in 2..15 :
          LET first == 3 + w
              last == first + m - 1
          IN /\ last <= Len(line)
             /\ \A i \in 3..(first - 1) : line[i] \in Whitespace
             /\ \A i \in first..last : line[i] # "dun"
             /\ IF last = Len(line) THEN TRUE ELSE line[last + 1] = "ti"

\* Line 98: type_match.group(1), the numeral that opens the line.
TypeGroup1(line) == <<line[1]>>

\* ------------------------------------------------------------------ identify_sections
JuanYi == <<"juan", "yi">>
JuanEr == <<"juan", "er">>
YiXuanZeTi == <<"yi", "dun", "xuan", "ze", "ti">>
ErTianKongTi == <<"er", "dun", "tian", "kong", "ti">>
QuestionA == <<"1", ".", " ", "ti", "mu", "A", "nei", "rong">>
QuestionB == <<"2", ".", " ", "ti", "mu", "B", "nei", "rong">>

\* The page texts the streams are made of, each as text.split('\n').
PageTexts ==
    { <<JuanYi, YiXuanZeTi, QuestionA>>,
      <<JuanEr, ErTianKongTi, QuestionB>>,
      <<JuanYi, YiXuanZeTi, QuestionA, JuanEr, ErTianKongTi, QuestionB>>,
      <<QuestionA>>,
      <<YiXuanZeTi, <<>>, <<" ", " ">> \o QuestionB \o <<" ">>>>,
      <<JuanYi>>,
      <<JuanYi, QuestionB>>,
      <<JuanYi, <<"di", "juan", "yi">>>>,
      <<JuanEr, ErTianKongTi>>,
      <<<<>>>>,
      <<<<"di", "yi", "juan">>, <<"juan", "ba">>>> }

Sources == {"pdfplumber", "ocr", "pdfplumber_fallback"}

PageStreams ==
    UNION {[1..len -> {[lines |-> t, source |-> src] : t \in PageTexts, src \in Sources}] :
              len \in 0..MaxSegPages}

\* The cursor after the line at c: the next line of the page, or the first
\* line of the next page.
Advance(c) ==
    IF c[2] < Len(pages_text[c[1]].lines) THEN <<c[1], c[2] + 1>> ELSE <<c[1] + 1, 1>>

AtLine == spc = "loop" /\ cursor[1] <= Len(pages_text)

\* line = line.strip() of the line at the cursor (line 64).
CurrentLine == Strip(pages_text[cursor[1]].lines[cursor[2]])

\* page.get('source', 'pdfplumber') of the page at the cursor (line 61).
PageSource == pages_text[cursor[1]].source

\* A save that asks only for a paper, not for content.
FlushedWithoutContent ==
    IF current_paper # NoneStr
    THEN Append(sections,
                [paper |-> current_paper,
                 type |-> IF current_type # NoneStr THEN current_type ELSE Unknown,
                 content |-> current_content,
                 source |-> current_source])
    ELSE sections

\* Lines 72-78, 90-96, 108-114: the sections after the current one is saved,
\* when there is one to save.
Flushed ==
    IF current_paper # NoneStr /\ current_content # <<>>
    THEN Append(sections,
                [paper |-> current_paper,
                 type |-> IF current_type # NoneStr THEN current_type ELSE Unknown,
                 content |-> current_content,
                 source |-> current_source])
    ELSE sections

\* Lines 65-66: an empty line is skipped.
SegBlank ==
    /\ AtLine
    /\ CurrentLine = <<>>
    /\ cursor' = Advance(cursor)
    /\ UNCHANGED <<pages_text, spc, sections, current_paper, current_type,
                   current_content, current_source>>

\* A new paper that leaves the current type as it is.
SegPaperKeepingType ==
    /\ AtLine
    /\ CurrentLine # <<>>
    /\ IsPaperBoundary(CurrentLine)
    /\ sections' = Flushed
    /\ current_paper' = <<"juan", PaperGroup1(CurrentLine)>>
    /\ current_content' = <<>>
    /\ current_source' = PageSource
    /\ cursor' = Advance(cursor)
    /\ UNCHANGED <<pages_text, spc, current_type>>

\* Lines 69-84: a new paper.
SegPaper ==
    /\ AtLine
    /\ CurrentLine # <<>>
    /\ IsPaperBoundary(CurrentLine)
    /\ sections' = Flushed
    /\ current_paper' = <<"juan", PaperGroup1(CurrentLine)>>
    /\ current_type' = NoneStr
    /\ current_content' = <<>>
    /\ current_source' = PageSource
    /\ cursor' = Advance(cursor)
    /\ UNCHANGED <<pages_text, spc>>

\* Line 98: current_type = type_match.group(1).
NewType(line) == TypeGroup1(line)

\* A new question type that leaves the current provenance as it is.
SegTypeKeepingSource ==
    /\ AtLine
    /\ CurrentLine # <<>>
    /\ ~IsPaperBoundary(CurrentLine)
    /\ TypeMatches(CurrentLine)
    /\ sections' = Flushed
    /\ current_type' = NewType(CurrentLine)
    /\ current_content' = <<>>
    /\ cursor' = Advance(cursor)
    /\ UNCHANGED <<pages_text, spc, current_paper, current_source>>

\* Lines 87-101: a new question type.
SegType ==
    /\ AtLine
    /\ CurrentLine # <<>>
    /\ ~IsPaperBoundary(CurrentLine)
    /\ TypeMatches(CurrentLine)
    /\ sections' = Flushed
    /\ current_type' = NewType(CurrentLine)
    /\ current_content' = <<>>
    /\ current_source' = PageSource
    /\ cursor' = Advance(cursor)
    /\ UNCHANGED <<pages_text, spc, current_paper>>

\* Any line collected as content of the current paper, a boundary or not.
SegContentAnyLine ==
    /\ AtLine
    /\ CurrentLine # <<>>
    /\ current_content' = IF current_paper # NoneStr
                          THEN Append(current_content, CurrentLine)
                          ELSE current_content
    /\ cursor' = Advance(cursor)
    /\ UNCHANGED <<pages_text, spc, sections, current_paper, current_type,
                   current_source>>

\* Any other line collected as content, a paper being active or not.
SegContentWithoutPaper ==
    /\ AtLine
    /\ CurrentLine # <<>>
    /\ ~IsPaperBoundary(CurrentLine)
    /\ ~TypeMatches(CurrentLine)
    /\ current_content' = Append(current_content, CurrentLine)
    /\ cursor' = Advance(cursor)
    /\ UNCHANGED <<pages_text, spc, sections, current_paper, current_type,
                   current_source>>

\* Lines 104-105: any other line is content of the current paper, if any.
SegContent ==
    /\ AtLine
    /\ CurrentLine # <<>>
    /\ ~IsPaperBoundary(CurrentLine)
    /\ ~TypeMatches(CurrentLine)
    /\ current_content' = IF current_paper # NoneStr
                          THEN Append(current_content, CurrentLine)
                          ELSE current_content
    /\ cursor' = Advance(cursor)
    /\ UNCHANGED <<pages_text, spc, sections, current_paper, current_type,
                   current_source>>

\* A return that does not save the section being collected.
SegFinishWithoutSave ==
    /\ spc = "loop"
    /\ cursor[1] > Len(pages_text)
    /\ spc' = "done"
    /\ UNCHANGED <<pages_text, cursor, sections, current_paper, current_type,
                   current_content, current_source>>

\* Lines 107-126: the last section is saved and the sections are returned.
SegFinish ==
    /\ spc = "loop"
    /\ cursor[1] > Len(pages_text)
    /\ sections' = Flushed
    /\ spc' = "done"
    /\ UNCHANGED <<pages_text, cursor, current_paper, current_type,
                   current_content, current_source>>

\* identify_sections is entered with a page stream (lines 52-56); the
\* parser holds no engine, so the engine stays as constructed.
InitSeg ==
    /\ InitEngine
    /\ cache = [f \in Fingerprints |-> NoneVal]
    /\ available = TRUE
    /\ NoExtraction
    /\ pages_text \in PageStreams
    /\ spc = "loop"
    /\ cursor = <<1, 1>>
    /\ sections = <<>>
    /\ current_paper = NoneStr
    /\ current_type = NoneStr
    /\ current_content = <<>>
    /\ current_source = "pdfplumber"
    /\ NoQuestions
    /\ StorageWorks
    /\ NoRun
    /\ NoAssessment
    /\ NoProgress
    /\ NoCleaning

NextSeg ==
    \/ SegBlank /\ UNCHANGED <<bvars, xvars, qvars, cvars, mvars, avars, pvars, kvars>>
    \/ SegPaper /\ UNCHANGED <<bvars, xvars, qvars, cvars, mvars, avars, pvars, kvars>>
    \/ SegType /\ UNCHANGED <<bvars, xvars, qvars, cvars, mvars, avars, pvars, kvars>>
    \/ SegContent /\ UNCHANGED <<bvars, xvars, qvars, cvars, mvars, avars, pvars, kvars>>
    \/ SegFinish /\ UNCHANGED <<bvars, xvars, qvars, cvars, mvars, avars, pvars, kvars>>

SpecSeg == InitSeg /\ [][NextSeg]_vars

\* ------------------------------------------------------------------ the batch: claims
\* The cached text the scan found for position i, None when it found none.
HitText(i) ==
    IF \E k \in DOMAIN cached_results : cached_results[k][1] = i
    THEN cached_results[CHOOSE k \in DOMAIN cached_results : cached_results[k][1] = i][2]
    ELSE NoneVal

\* The text of position i in the current batch: what its own recognition call
\* returned, or else its cache entry.
OwnText(i) == IF i \in DOMAIN fut THEN fut[i].val ELSE HitText(i)

\* A step that is a call of extract_text_from_pages_batch up to its return or
\* the submission of its misses / one that is a direct single-page call / one
\* that is the return of a batch that had misses.
CallStep == Idle /\ nreq' = nreq + 1 /\ pc' \in {"collect", "returned"}
SingleStep == Idle /\ nreq' = nreq + 1 /\ pc' = "returned_page"
ReturnStep == pc = "collect" /\ pc' = "returned"

\* C1: when a batch returns, element i of the returned list is the text
\* (cached or recognized) of input page i, for every input page i, whatever
\* the order in which the recognition calls completed.
C1_ResultInInputOrder ==
    pc = "returned" =>
        \A i \in DOMAIN pages : i \in DOMAIN ret /\ ret[i] = OwnText(i)

\* The order part of C1 for the batches that read the cache (use_cache true).
OrderWithCacheEnabled ==
    (pc = "returned" /\ use_cache) =>
        \A i \in DOMAIN pages : i \in DOMAIN ret /\ ret[i] = OwnText(i)

\* C2: the returned list has exactly the length of the input page list, for
\* both values of use_cache.
C2_SameLength == pc = "returned" => Len(ret) = Len(pages)

\* C3: when a batch returns, the result of every page whose recognition call
\* raised is the empty string and the result of every other page is what its
\* own recognition call, or its cache entry, produced.
C3_FailureIsolation ==
    pc = "returned" =>
        \A i \in DOMAIN pages :
            /\ i \in DOMAIN ret
            /\ (i \in DOMAIN fut /\ fut[i].exc) => ret[i] = Empty
            /\ (i \in DOMAIN fut /\ ~fut[i].exc) => ret[i] = fut[i].val
            /\ i \notin DOMAIN fut => ret[i] = HitText(i)

\* The isolation part of C3 for the batches that read the cache.
IsolationWithCacheEnabled ==
    (pc = "returned" /\ use_cache) =>
        /\ Len(ret) = Len(pages)
        /\ \A i \in DOMAIN fut : ret[i] = IF fut[i].exc THEN Empty ELSE fut[i].val
        /\ \A i \in DOMAIN pages \ DOMAIN fut : ret[i] = HitText(i)

C5_AllHitsNoEngine ==
    [][ (CallStep /\ use_cache'
            /\ \A i \in DOMAIN pages' : Truthy(cache[pages'[i]])) =>
          /\ pc' = "returned"
          /\ ret' = [i \in DOMAIN pages' |-> cache[pages'[i]]]
          /\ fut' = <<>>
          /\ ocr' = ocr
          /\ cache' = cache
          /\ recognized' = recognized
          /\ recognizedAgain' = recognizedAgain
      ]_vars

\* C5's case: two cached pages, asked for in an order that is not the order
\* of their texts, are returned in input order by an engine never initialised.
C5_Witness ==
    /\ pc = "returned" /\ use_cache
    /\ pages = <<2, 1>>
    /\ Len(cached_results) = 2 /\ remaining_indices = <<>>
    /\ ret = <<TextOf(2), TextOf(1)>>
    /\ fut = <<>>
    /\ ~ocr
    /\ recognized = {}

\* ------------------------------------------------------------------ extract: claims
\* The pages pass 1 flagged for recognition.
Flagged == Range(ocr_pages_indices)

\* The position in the dispatcher's batch of the flagged page j.
BatchPos(j) == CHOOSE k \in DOMAIN ocr_pages_indices : ocr_pages_indices[k] = j

\* C6: when extract returns, every flagged page whose dispatcher result is
\* non-empty has that text, the text read on that very page, with provenance
\* 'ocr'; every flagged page whose result is empty keeps its native text with
\* provenance 'pdfplumber_fallback'; each flagged page is still at its place.
C6_MergeByPage ==
    xpc = "done" =>
        /\ Len(ret) = Len(ocr_pages_indices) \/ ocr_pages_indices = <<>>
        /\ \A j \in Flagged :
              /\ j \in DOMAIN xpages
              /\ xpages[j].page_num = (j - 1) + 1
              /\ LET ocr_text == ret[BatchPos(j)]
                 IN IF ocr_text # Empty
                    THEN /\ xpages[j].text = OcrText(ocr_text)
                         /\ ocr_text = TextOf(doc[j].fp)
                         /\ xpages[j].source = "ocr"
                    ELSE /\ xpages[j].text = doc[j].text
                         /\ xpages[j].source = "pdfplumber_fallback"

\* C6's case: a page that is not flagged, then two flagged ones, the first
\* with an empty result (fallback to its native text) and the second with the
\* text read on it.
C6_Witness ==
    /\ xpc = "done"
    /\ Len(doc) = 3
    /\ ocr_pages_indices = <<2, 3>>
    /\ ret = <<Empty, TextOf(doc[3].fp)>>
    /\ xpages[2].source = "pdfplumber_fallback" /\ xpages[2].text = doc[2].text
    /\ xpages[3].source = "ocr" /\ xpages[3].text = OcrText(TextOf(doc[3].fp))

\* C7: once pass 1 is done, a page is flagged exactly when its score
\*   min(c/500, 0.4) + (c/n)*0.3 + (0.3 if k else 0)
\* is strictly below 0.3 or its length is strictly below 50 (the empty text
\* scores 0); a page that is not flagged has provenance 'pdfplumber' and its
\* native text, also after pass 2.
C7_FlaggedIffLowQuality ==
    xpc \in {"assessed", "batch", "done"} =>
        \A j \in DOMAIN doc :
            LET t == doc[j].text
                low == IF t.n = 0 THEN TRUE
                       ELSE 10 * (Min(10 * t.c * t.n, 2000 * t.n) + 1500 * t.c
                                  + (IF t.k THEN 1500 * t.n ELSE 0))
                            < 3 * 5000 * t.n
            IN /\ (j \in Flagged) <=> (low \/ t.n < 50)
               /\ j \notin Flagged =>
                     /\ xpages[j].source = "pdfplumber"
                     /\ xpages[j].text = t

\* C7's case: extract has returned for a document whose first page scores
\* exactly 0.3 with 150 characters (not flagged) and whose second page scores
\* 0.296 (flagged, and recognized).
C7_Witness ==
    /\ xpc = "done"
    /\ Len(doc) >= 2
    /\ doc[1].text = NativeText(150, 75, FALSE)
    /\ doc[2].text = NativeText(150, 74, FALSE)
    /\ ocr_pages_indices[1] = 2
    /\ xpages[1].source = "pdfplumber"
    /\ xpages[2].source = "ocr"

\* C8: when extract returns, no page carries 'pending_ocr': every provenance
\* is 'pdfplumber', 'ocr' or 'pdfplumber_fallback'.
C8_ProvenanceResolved ==
    xpc = "done" =>
        \A j \in DOMAIN xpages :
            xpages[j].source \in {"pdfplumber", "ocr", "pdfplumber_fallback"}

\* C8's case: extract has returned and pages that were pending after pass 1
\* are resolved, one to 'ocr' and one to 'pdfplumber_fallback'.
C8_Witness ==
    /\ xpc = "done"
    /\ Len(ocr_pages_indices) >= 2
    /\ \E j \in Flagged : xpages[j].source = "ocr"
    /\ \E j \in Flagged : xpages[j].source = "pdfplumber_fallback"
    /\ \A j \in DOMAIN xpages : xpages[j].source # "pending_ocr"

\* C9 as stated: one record per source page, in page order, the page index
\* values forming the 0-based range 0..N-1 (the record at 0-based position i,
\* position i + 1 here, has index i).
C9_ZeroBasedIndices ==
    xpc = "done" =>
        /\ Len(xpages) = Len(doc)
        /\ \A j \in DOMAIN xpages : xpages[j].page_num = j - 1

\* C9 as amended: one record per source page, pages with empty native text
\* included, in page order, the page_num values forming the 1-based range
\* 1..N (the record at 0-based position i has page_num i + 1).
C9_OneRecordPerPage ==
    xpc = "done" =>
        /\ Len(xpages) = Len(doc)
        /\ \A j \in DOMAIN xpages :
              /\ xpages[j].page_num = (j - 1) + 1
              /\ xpages[j].text.kind = "native" => xpages[j].text = doc[j].text
              /\ xpages[j].text.kind = "ocr" => xpages[j].text.val = TextOf(doc[j].fp)

\* C9's case: a document with an empty first page, which is kept.
C9_Witness ==
    /\ xpc = "done"
    /\ Len(doc) >= 2
    /\ doc[1].text = NativeText(0, 0, FALSE)
    /\ Len(xpages) = Len(doc)
    /\ xpages[1].page_num = 1 /\ xpages[1].text = NativeText(0, 0, FALSE)
    /\ xpages[2].page_num = 2

\* ------------------------------------------------------------------ identify_sections: claims
\* The stripped non-empty lines of a page stream, in order.
RECURSIVE NonEmptyLines(_)
NonEmptyLines(ls) ==
    IF ls = <<>> THEN <<>>
    ELSE (IF Strip(Head(ls)) = <<>> THEN <<>> ELSE <<Strip(Head(ls))>>)
         \o NonEmptyLines(Tail(ls))

RECURSIVE LineStream(_)
LineStream(ps) ==
    IF ps = <<>> THEN <<>> ELSE NonEmptyLines(Head(ps).lines) \o LineStream(Tail(ps))

\* A section without its provenance.
Plain(sec) == [paper |-> sec.paper, type |-> sec.type, content |-> sec.content]

\* C10: the line stream
\*   juan-yi / yi, xuan-ze-ti / "1. ti-mu A nei-rong" /
\*   juan-er / er, tian-kong-ti / "2. ti-mu B nei-rong"
\* yields exactly two sections, in this order: paper juan-yi of type xuan-ze
\* with the first question as content, and paper juan-er of type tian-kong
\* with the second question as content.
C10_TwoSectionsByTypeName ==
    (spc = "done"
        /\ LineStream(pages_text)
             = <<JuanYi, YiXuanZeTi, QuestionA, JuanEr, ErTianKongTi, QuestionB>>) =>
        /\ Len(sections) = 2
        /\ Plain(sections[1])
             = [paper |-> JuanYi, type |-> <<"xuan", "ze">>, content |-> <<QuestionA>>]
        /\ Plain(sections[2])
             = [paper |-> JuanEr, type |-> <<"tian", "kong">>, content |-> <<QuestionB>>]

\* What the segmenter yields on that stream: the same two sections, but with
\* the numerals yi and er as their types.
SegmentationOfTheStream ==
    (spc = "done"
        /\ LineStream(pages_text)
             = <<JuanYi, YiXuanZeTi, QuestionA, JuanEr, ErTianKongTi, QuestionB>>) =>
        /\ Len(sections) = 2
        /\ Plain(sections[1])
             = [paper |-> JuanYi, type |-> <<"yi">>, content |-> <<QuestionA>>]
        /\ Plain(sections[2])
             = [paper |-> JuanEr, type |-> <<"er">>, content |-> <<QuestionB>>]

\* Whether a stripped non-empty line opens a paper or a question type.
IsBoundary(line) == IsPaperBoundary(line) \/ TypeMatches(line)

\* The content runs of a line stream that lie under a paper: the places of
\* the content lines that come right after a boundary, a paper boundary
\* having occurred before.
ContentRuns(ls) ==
    {i \in 2..Len(ls) :
        /\ ~IsBoundary(ls[i])
        /\ IsBoundary(ls[i - 1])
        /\ \E j \in 1..(i - 1) : IsPaperBoundary(ls[j])}

\* C11: every section identify_sections has emitted, at any point of any
\* page stream, has a set paper and non-empty content made of non-empty
\* lines; and when it returns there is one section per content run, so a
\* paper or type boundary followed by no content line before the next
\* boundary or the end of the stream has produced no section.
C11_NoEmptySection ==
    /\ \A k \in DOMAIN sections :
          /\ sections[k].paper # NoneStr
          /\ sections[k].content # <<>>
          /\ \A n \in DOMAIN sections[k].content : sections[k].content[n] # <<>>
    /\ spc = "done" =>
          Len(sections) = Cardinality(ContentRuns(LineStream(pages_text)))

\* C11's case: a paper boundary at the end of a page, followed on the next
\* page by another paper boundary and a type boundary before the first
\* content line; one section, of the second paper, is emitted.
C11_Witness ==
    /\ spc = "done"
    /\ LineStream(pages_text) = <<JuanYi, JuanEr, ErTianKongTi, QuestionB>>
    /\ Len(sections) = 1
    /\ sections[1].paper = JuanEr
    /\ sections[1].content = <<QuestionB>>

\* ------------------------------------------------------------------ question text
\* Section content is a string (the '\n'.join of line 76), a sequence of
\* characters.  Besides the names above: "nl" is the newline, "fs" the
\* full-width full stop U+FF0E, "c1" "c2" the circled digits U+2460 U+2461,
\* "p1" the parenthesized digit U+2474.
Digits == {"0", "1", "2", "3"}
QuestionSeps == {".", "fs", "dun"}
OptionLetters == {"A", "B", "C", "D"}
RegexSpace == {" ", "nl"}

\* The result of a failed match (None).
NoMatch == [end |-> 0]

\* \d+ from t: the last character of the run of digits that starts at t.
DigitsEnd(s, t) ==
    CHOOSE e \in t..Len(s) :
        /\ \A i \in t..e : s[i] \in Digits
        /\ IF e = Len(s) THEN TRUE ELSE s[e + 1] \notin Digits

\* \s* from t at its greediest: the first character at or after t that is not
\* whitespace, Len(s) + 1 when there is none.
SpaceEnd(s, t) ==
    CHOOSE g \in t..(Len(s) + 1) :
        /\ \A i \in t..(g - 1) : s[i] \in RegexSpace
        /\ IF g = Len(s) + 1 THEN TRUE ELSE s[g] \notin RegexSpace

\* The end of the line t is on: the first place at or after t that holds a
\* newline, Len(s) + 1 on the last line.  With re.MULTILINE this is where $
\* matches.
LineEnd(s, t) ==
    CHOOSE p \in t..(Len(s) + 1) :
        /\ \A i \in t..(p - 1) : s[i] # "nl"
        /\ IF p = Len(s) + 1 THEN TRUE ELSE s[p] = "nl"

\* (\d+)[. fs dun] at t: the last character of the number, 0 without a match.
NumberEnd(s, t) ==
    IF t > Len(s) THEN 0
    ELSE IF s[t] \notin Digits THEN 0
    ELSE LET e == DigitsEnd(s, t)
         IN IF e + 1 > Len(s) THEN 0
            ELSE IF s[e + 1] \in QuestionSeps THEN e ELSE 0

\* QUESTION_PATTERNS[0] (config.py line 92) matched at t:
\*   (\d+)[. fs dun]\s*([^A-D\s][^A-D]*?)(?=\n\d+\.|\n[A-D]\.|$)
\* The second group starts at the first character after the whitespace,
\* which must not be an option letter, and being lazy ends at the first end
\* of line, where $ holds; an option letter before it makes the match fail.
MatchStandard1(s, t) ==
    LET e == NumberEnd(s, t)
        g == SpaceEnd(s, e + 2)
        p == LineEnd(s, g + 1)
    IN IF e = 0 THEN NoMatch
       ELSE IF g > Len(s) THEN NoMatch
       ELSE IF s[g] \in OptionLetters THEN NoMatch
       ELSE IF \E i \in (g + 1)..(p - 1) : s[i] \in OptionLetters THEN NoMatch
       ELSE [num |-> SubSeq(s, t, e), content |-> SubSeq(s, g, p - 1), end |-> p]

\* (?:\n[A-D]\.[^\n]+)* from p, the end of a line: the end of the last
\* option line that follows.
RECURSIVE OptionLinesEnd(_, _)
OptionLinesEnd(s, p) ==
    IF p + 3 > Len(s) THEN p
    ELSE IF s[p] = "nl" /\ s[p + 1] \in OptionLetters /\ s[p + 2] = "." /\ s[p + 3] # "nl"
         THEN OptionLinesEnd(s, LineEnd(s, p + 3))
         ELSE p

\* QUESTION_PATTERNS[1] (config.py line 93) matched at t:
\*   (\d+)[. fs dun]\s*([^\n]+(?:\n[A-D]\.[^\n]+)*)
\* \s* gives characters back when it ran to the end of the string, down to
\* the last one that is not a newline.
MatchStandard2(s, t) ==
    LET e == NumberEnd(s, t)
        g0 == SpaceEnd(s, e + 2)
        back == {i \in (e + 2)..Len(s) : s[i] # "nl"}
        g == IF g0 <= Len(s) THEN g0
             ELSE IF back = {} THEN 0
             ELSE CHOOSE i \in back : \A j \in back : j <= i
    IN IF e = 0 THEN NoMatch
       ELSE IF g = 0 THEN NoMatch
       ELSE LET p == OptionLinesEnd(s, LineEnd(s, g))
            IN [num |-> SubSeq(s, t, e), content |-> SubSeq(s, g, p - 1), end |-> p]

\* The standard patterns by name, in the order of QUESTION_PATTERNS.
QUESTION_PATTERNS == <<"standard1", "standard2">>

MatchAt(pattern, s, t) ==
    IF pattern = "standard1" THEN MatchStandard1(s, t) ELSE MatchStandard2(s, t)

\* re.finditer: the next match at or after pos, the leftmost one.
NextMatch(pattern, s, pos) ==
    LET starts == {t \in pos..Len(s) : MatchAt(pattern, s, t) # NoMatch}
    IN IF starts = {} THEN NoMatch
       ELSE MatchAt(pattern, s, CHOOSE t \in starts : \A u \in starts : t <= u)

\* str.strip() of a string with newlines in it.
RECURSIVE StripSpace(_)
StripSpace(s) ==
    IF s = <<>> THEN s
    ELSE IF Head(s) \in RegexSpace THEN StripSpace(Tail(s))
    ELSE IF s[Len(s)] \in RegexSpace THEN StripSpace(SubSeq(s, 1, Len(s) - 1))
    ELSE s

\* Whether old occurs in s at i.
OccursAt(s, old, i) ==
    /\ i + Len(old) - 1 <= Len(s)
    /\ \A k \in 1..Len(old) : s[i + k - 1] = old[k]

\* str.replace(old, new): the occurrences of old replaced from the left,
\* without overlap.
RECURSIVE Replace(_, _, _)
Replace(s, old, new) ==
    IF s = <<>> THEN s
    ELSE IF OccursAt(s, old, 1)
         THEN new \o Replace(SubSeq(s, Len(old) + 1, Len(s)), old, new)
         ELSE <<Head(s)>> \o Replace(Tail(s), old, new)

\* The correction table of _clean_ocr_content (lines 199-217), in its order,
\* for the characters of the alphabet.
Corrections ==
    << <<<<"O", " ">>, <<"0", " ">>>>,
       <<<<" ", "l", " ">>, <<" ", "1", " ">>>>,
       <<<<"p1">>, <<"(", "1", ")">>>>,
       <<<<"c1">>, <<"(", "1", ")">>>>,
       <<<<"c2">>, <<"(", "2", ")">>>> >>

\* Lines 219-220: the corrections applied one after the other.
RECURSIVE ApplyCorrections(_, _)
ApplyCorrections(s, k) ==
    IF k = 0 THEN s
    ELSE Replace(ApplyCorrections(s, k - 1), Corrections[k][1], Corrections[k][2])

\* _clean_ocr_content (lines 185-222).
CleanOcrContent(s) == IF s = <<>> THEN s ELSE ApplyCorrections(s, Len(Corrections))

\* re.sub(r'\s+', ' ', s): every run of whitespace becomes one space.
RECURSIVE CollapseSpace(_)
CollapseSpace(s) ==
    IF s = <<>> THEN s
    ELSE IF Head(s) \in RegexSpace
         THEN <<" ">> \o CollapseSpace(SubSeq(s, SpaceEnd(s, 1), Len(s)))
         ELSE <<Head(s)>> \o CollapseSpace(Tail(s))

\* Line 170: re.match(r'^[\dA-D\s()]+$', q_content).
JunkClass == Digits \cup OptionLetters \cup RegexSpace \cup {"(", ")"}

IsJunk(s) == s # <<>> /\ \A i \in DOMAIN s : s[i] \in JunkClass

\* ------------------------------------------------------------------ extract_questions_from_section
\* One question, no option letter, 14 characters of content.
ContentPlain == <<"1", ".", " ", "ti", "mu", "nei", "rong", "ti", "mu", "nei",
    "rong", "ti", "mu", "nei", "rong", "ti", "mu">>
\* An option letter in the line: only the second standard pattern matches.
ContentOptionLetter == <<"1", ".", " ", "ti", "mu", "A", "nei", "rong", "ti", "mu",
    "nei", "rong", "ti", "mu", "nei", "rong">>
\* Two questions, the first with an option line: the two standard patterns give different records.
ContentWithOptions == <<"1", ".", " ", "ti", "mu", "nei", "rong", "ti", "mu",
    "nei", "rong", "ti", "mu", "nl", "A", ".", " ", "xuan", "xiang", "nl", "2",
    ".", " ", "ti", "mu", "nei", "rong", "ti", "mu", "nei", "rong", "ti", "mu",
    "nei">>
\* The candidate 'A B C D 1 2 3'.
ContentJunk == <<"1", ".", " ", "A", " ", "B", " ", "C", " ", "D", " ", "1", " ",
    "2", " ", "3">>
\* A candidate of digits and full stops.
ContentDigitsAndStops == <<"1", ".", " ", "2", ".", "3", ".", "1", ".", "2", ".",
    "3", ".", "1", ".", "2">>
\* A candidate of two characters.
ContentShort == <<"1", ".", " ", "ti", "mu">>
\* 9 characters with two circled digits, 13 once corrected.
ContentGlyphs == <<"1", ".", " ", "c1", "ti", "mu", "nei", "rong", "ti", "c2",
    "ti", "mu">>
\* Ten circled digits.
ContentOnlyGlyphs == <<"1", ".", " ", "c1", "c2", "c1", "c2", "c1", "c2", "c1",
    "c2", "c1", "c2">>
\* ' l' at the end of a line, before an option line.
ContentLetterL == <<"1", ".", " ", "ti", "mu", "nei", "rong", "ti", "mu", "nei",
    " ", "l", "nl", "A", ".", " ", "nei", "rong">>
\* Digits and spaces first, text at the end.
ContentJunkPrefix == <<"1", ".", " ", "1", " ", "2", " ", "3", " ", "1", " ", "2",
    " ", "3", " ", "1", " ", "ti", "mu">>
\* The empty content.
ContentEmpty == <<>>
\* No question number.
ContentNoNumber == <<"ti", "mu", "nei", "rong">>
\* The circled digits of a two-part question.
ContentGeneticAlgorithm == <<"1", ".", " ", "c1", "jie", "shi", "yi2", "chuan",
    "suan", "fa", "c2", "fen", "xi", "fu", "za", "du">>

\* The contents sections are made of.
SectionContents ==
    {ContentPlain, ContentOptionLetter, ContentWithOptions,
     ContentJunk, ContentDigitsAndStops, ContentShort,
     ContentGlyphs, ContentOnlyGlyphs, ContentLetterL,
     ContentJunkPrefix, ContentEmpty, ContentNoNumber,
     ContentGeneticAlgorithm}

\* config.OCR_QUESTION_PATTERNS of an ETLConfig: the class has no such
\* attribute, reading it raises AttributeError.
EtlConfigOcrPatterns == [defined |-> FALSE, list |-> <<>>]

\* config.OCR_QUESTION_PATTERNS of a configuration that supplies the
\* OCR-tolerant list: here the looser of the standard patterns.
SuppliedOcrPatterns == [defined |-> TRUE, list |-> <<"standard2">>]

\* A test that takes every section that is not plainly native for recognised.
IsOcrTextUnlessNative(sec) == sec.source # "pdfplumber"

\* Line 142: is_ocr_text.
IsOcrText(sec) == sec.source = "ocr"

\* Lines 145-148: patterns_to_use.
PatternsFor(sec, ocr_list) ==
    IF IsOcrText(sec) THEN ocr_list \o QUESTION_PATTERNS ELSE QUESTION_PATTERNS

\* A cleaning that collapses the whitespace before it corrects.
CleanedContentCollapseFirst(raw, is_ocr) ==
    LET collapsed == StripSpace(CollapseSpace(StripSpace(raw)))
    IN IF is_ocr THEN StripSpace(CleanOcrContent(collapsed)) ELSE collapsed

\* Lines 155-163: q_content of a match, from its second group.
CleanedContent(raw, is_ocr) ==
    LET stripped == StripSpace(raw)
        corrected == IF is_ocr THEN CleanOcrContent(stripped) ELSE stripped
    IN StripSpace(CollapseSpace(corrected))

\* Lines 165-171 without the junk filter.
AcceptedByLength(q_content) == Len(q_content) >= MIN_CONTENT_LENGTH

\* Lines 165-171: the two filters.
Accepted(q_content) ==
    /\ Len(q_content) >= MIN_CONTENT_LENGTH
    /\ ~IsJunk(q_content)

\* A record that keeps the whole content.
Untruncated(s, n) == s

\* Line 177: q_content[:max_content_length].
Truncate(s, n) == SubSeq(s, 1, Min(Len(s), n))

\* Lines 173-178: the record of an accepted match.
QuestionRecord(sec, match, q_content, maxlen) ==
    [Paper_ID |-> sec.paper,
     Question_Type |-> sec.type,
     Question_Number |-> match.num,
     Content |-> Truncate(q_content, maxlen)]

\* A loop that goes on to the next pattern whatever it has found.
NeverBreak(qs) == FALSE

\* Lines 180-181: if questions: break.
BreakAfter(qs) == qs # <<>>

\* Lines 138-148: the pattern list is chosen; an 'ocr' section reads
\* config.OCR_QUESTION_PATTERNS, which raises when the config has none.
QSelect ==
    /\ qpc = "start"
    /\ IF IsOcrText(section) /\ ~ocr_question_patterns.defined
       THEN /\ qpc' = "raised"
            /\ UNCHANGED <<patterns_to_use, pattern_idx, match_pos>>
       ELSE /\ patterns_to_use' = PatternsFor(section, ocr_question_patterns.list)
            /\ pattern_idx' = 1
            /\ match_pos' = 1
            /\ qpc' = "matching"
    /\ UNCHANGED <<section, max_content_length, ocr_question_patterns, questions, q_trace>>

\* The next match of re.finditer(pattern, content, re.MULTILINE) (line 151).
CurrentMatch == NextMatch(patterns_to_use[pattern_idx], section.content, match_pos)

\* Lines 153-178: one match is cleaned, filtered and, when accepted, recorded.
QMatch ==
    /\ qpc = "matching"
    /\ CurrentMatch # NoMatch
    /\ LET q_content == CleanedContent(CurrentMatch.content, IsOcrText(section))
       IN IF Accepted(q_content)
          THEN /\ questions' = Append(questions,
                     QuestionRecord(section, CurrentMatch, q_content, max_content_length))
               /\ q_trace' = Append(q_trace, [pattern |-> pattern_idx, clean |-> q_content])
          ELSE UNCHANGED <<questions, q_trace>>
    /\ match_pos' = CurrentMatch.end
    /\ UNCHANGED <<section, max_content_length, ocr_question_patterns, qpc,
                   patterns_to_use, pattern_idx>>

\* Lines 150, 180-181: a pattern that left questions empty is followed by the next.
QNextPattern ==
    /\ qpc = "matching"
    /\ CurrentMatch = NoMatch
    /\ ~BreakAfter(questions)
    /\ pattern_idx < Len(patterns_to_use)
    /\ pattern_idx' = pattern_idx + 1
    /\ match_pos' = 1
    /\ UNCHANGED <<section, max_content_length, ocr_question_patterns, qpc,
                   patterns_to_use, questions, q_trace>>

\* Lines 180-183: the loop ends, on break or after the last pattern.
QReturn ==
    /\ qpc = "matching"
    /\ CurrentMatch = NoMatch
    /\ BreakAfter(questions) \/ pattern_idx = Len(patterns_to_use)
    /\ qpc' = "returned"
    /\ UNCHANGED <<section, max_content_length, ocr_question_patterns,
                   patterns_to_use, pattern_idx, match_pos, questions, q_trace>>

\* extract_questions_from_section is entered with a section, on a parser
\* whose config is an ETLConfig or supplies the OCR-tolerant list, with the
\* default max_content_length or a small one (config.py line 53).
InitQuestions ==
    /\ InitEngine
    /\ cache = [f \in Fingerprints |-> NoneVal]
    /\ available = TRUE
    /\ NoExtraction
    /\ NoSegmentation
    /\ section \in {[paper |-> JuanYi, type |-> <<"yi">>, content |-> c, source |-> src] :
                       c \in SectionContents, src \in Sources}
    /\ max_content_length \in {MAX_CONTENT_LENGTH, SmallMaxContentLength}
    /\ ocr_question_patterns \in {EtlConfigOcrPatterns, SuppliedOcrPatterns}
    /\ qpc = "start"
    /\ patterns_to_use = <<>>
    /\ pattern_idx = 0
    /\ match_pos = 1
    /\ questions = <<>>
    /\ q_trace = <<>>
    /\ StorageWorks
    /\ NoRun
    /\ NoAssessment
    /\ NoProgress
    /\ NoCleaning

NextQuestions ==
    \/ QSelect /\ UNCHANGED <<bvars, xvars, svars, cvars, mvars, avars, pvars, kvars>>
    \/ QMatch /\ UNCHANGED <<bvars, xvars, svars, cvars, mvars, avars, pvars, kvars>>
    \/ QNextPattern /\ UNCHANGED <<bvars, xvars, svars, cvars, mvars, avars, pvars, kvars>>
    \/ QReturn /\ UNCHANGED <<bvars, xvars, svars, cvars, mvars, avars, pvars, kvars>>

SpecQuestions == InitQuestions /\ [][NextQuestions]_vars

\* ------------------------------------------------------------------ extract_questions_from_section: claims
\* The records one pattern yields on the section by itself, from pos on.
RECURSIVE RecordsOf(_, _)
RecordsOf(pattern, pos) ==
    LET match == NextMatch(pattern, section.content, pos)
        q_content == CleanedContent(match.content, IsOcrText(section))
    IN IF match = NoMatch THEN <<>>
       ELSE (IF Accepted(q_content)
             THEN <<QuestionRecord(section, match, q_content, max_content_length)>>
             ELSE <<>>) \o RecordsOf(pattern, match.end)

\* The places in patterns_to_use of the patterns that yield a record.
Winners == {k \in DOMAIN patterns_to_use : RecordsOf(patterns_to_use[k], 1) # <<>>}

\* C12: first match wins.  At every point the records found so far all come
\* from the pattern being evaluated, so no pattern is evaluated after one
\* that yielded a record and records of two patterns are never merged; and
\* the section's result is the records of the first pattern in list order
\* that yields any, the patterns before it having been tried and having
\* yielded nothing, or no record when no pattern yields one.
C12_FirstMatchWins ==
    /\ \A i \in DOMAIN q_trace : q_trace[i].pattern = pattern_idx
    /\ qpc = "returned" =>
          IF Winners = {}
          THEN questions = <<>> /\ pattern_idx = Len(patterns_to_use)
          ELSE LET first == CHOOSE k \in Winners : \A j \in Winners : k <= j
               IN /\ pattern_idx = first
                  /\ questions = RecordsOf(patterns_to_use[first], 1)

\* C12's case: a section whose two questions the first standard pattern
\* finds, and for which the second pattern would give other records (the
\* first question with its option line); the first pattern's two are returned.
C12_Witness ==
    /\ qpc = "returned"
    /\ section.content = ContentWithOptions
    /\ patterns_to_use = QUESTION_PATTERNS
    /\ pattern_idx = 1
    /\ Len(questions) = 2
    /\ RecordsOf("standard2", 1) # <<>>
    /\ RecordsOf("standard2", 1) # questions

Punctuation == {".", "fs", "dun", "(", ")"}

\* C14 as stated: no record has a content made only of digits, option
\* letters A-D, whitespace and punctuation; the candidate 'A B C D 1 2 3'
\* gives no record.
C14_NoJunkRecord ==
    /\ \A i \in DOMAIN questions :
          \E n \in DOMAIN questions[i].Content :
              questions[i].Content[n] \notin
                  (Digits \cup OptionLetters \cup RegexSpace \cup Punctuation)
    /\ (qpc = "returned" /\ section.content = ContentJunk) => questions = <<>>

\* C14 as amended: no record comes from a candidate whose cleaned content,
\* before truncation, is made only of digits, option letters A-D, whitespace
\* and the parentheses ( and ); the candidate 'A B C D 1 2 3' gives no record.
C14_NoParenthesisJunkRecord ==
    /\ \A i \in DOMAIN q_trace :
          \E n \in DOMAIN q_trace[i].clean :
              q_trace[i].clean[n] \notin
                  (Digits \cup OptionLetters \cup RegexSpace \cup {"(", ")"})
    /\ (qpc = "returned" /\ section.content = ContentJunk) => questions = <<>>

\* C14's case: the candidate 'A B C D 1 2 3', which the second standard
\* pattern matches, has been rejected and nothing is returned.
C14_Witness ==
    /\ qpc = "returned"
    /\ section.content = ContentJunk
    /\ section.source = "pdfplumber"
    /\ pattern_idx = 2
    /\ NextMatch("standard2", section.content, 1).content
           = <<"A", " ", "B", " ", "C", " ", "D", " ", "1", " ", "2", " ", "3">>
    /\ questions = <<>>

\* The characters the correction table replaces by themselves.
Glyphs == {"p1", "c1", "c2"}

\* What the records of an 'ocr' section show of the order of the steps: the
\* recorded contents are corrected ones; the two-part question is recorded
\* with (1) and (2); 9 characters that correction makes 13 pass the length
\* filter; ten circled digits, corrected to digits and parentheses only, are
\* rejected as junk; and ' l' before a newline, which is ' l ' only once the
\* whitespace is collapsed, is left as it is.
CorrectedThenFiltered ==
    /\ \A i \in DOMAIN q_trace : \A n \in DOMAIN q_trace[i].clean :
          q_trace[i].clean[n] \notin Glyphs
    /\ section.content = ContentGeneticAlgorithm =>
          /\ Len(questions) = 1
          /\ q_trace[1].clean = <<"(", "1", ")", "jie", "shi", "yi2", "chuan", "suan", "fa",
                                  "(", "2", ")", "fen", "xi", "fu", "za", "du">>
    /\ section.content = ContentGlyphs =>
          /\ Len(questions) = 1
          /\ q_trace[1].clean = <<"(", "1", ")", "ti", "mu", "nei", "rong", "ti",
                                  "(", "2", ")", "ti", "mu">>
    /\ section.content = ContentOnlyGlyphs => questions = <<>>
    /\ section.content = ContentLetterL =>
          /\ Len(questions) = 1
          /\ q_trace[1].clean = <<"ti", "mu", "nei", "rong", "ti", "mu", "nei", " ", "l",
                                  " ", "A", ".", " ", "nei", "rong">>

CorrectionBeforeFiltersWhenSupplied ==
    (section.source = "ocr" /\ ocr_question_patterns.defined /\ qpc = "returned") =>
        CorrectedThenFiltered

PatternListWhenSupplied ==
    (qpc \in {"matching", "returned", "raised"}
        /\ (ocr_question_patterns.defined \/ section.source # "ocr")) =>
        /\ qpc # "raised"
        /\ IF section.source = "ocr"
           THEN patterns_to_use = ocr_question_patterns.list \o <<"standard1", "standard2">>
           ELSE patterns_to_use = <<"standard1", "standard2">>

\* ------------------------------------------------------------------ OCRCache
\* The texts a caller hands to OCRCache.set for a page: any string; here ""
\* and the text of the page.
ApiTexts(page) == {Empty, TextOf(page)}

CacheCall(op, page, o, failed) ==
    [op |-> op, page |-> page, text |-> NoneVal, val |-> o.val,
     raised |-> o.raised, failed |-> failed]

\* The cache is called directly only while no batch has been requested.
DirectUse == pc = "idle" /\ nreq = 0

\* A direct call of OCRCache.get(page), lines 52-63.
OpGet(page) ==
    /\ DirectUse
    /\ last_call' = CacheCall("get", page, GetOutcome(cache, page, storage_fails),
                              storage_fails)
    /\ faulted' = (faulted \/ storage_fails)
    /\ UNCHANGED <<cache, storage_fails, last_set>>

\* A direct call of OCRCache.set(page, text), lines 65-74.
OpSet(page, text) ==
    LET o == SetOutcome(cache, page, text, storage_fails)
    IN /\ DirectUse
       /\ cache' = o.cache
       /\ last_call' = [CacheCall("set", page, [val |-> NoneVal, raised |-> o.raised],
                                  storage_fails) EXCEPT !.text = text]
       /\ last_set' = [last_set EXCEPT ![page] = text]
       /\ faulted' = (faulted \/ storage_fails)
       /\ UNCHANGED storage_fails

\* What a failing shutil.rmtree can leave of the directory: any part of it.
PartialClears(c) ==
    {d \in [DOMAIN c -> {c[f] : f \in DOMAIN c} \cup {NoneVal}] :
        \A f \in DOMAIN c : d[f] \in {c[f], NoneVal}}

\* A direct call of OCRCache.clear(), lines 76-81: the directory is removed
\* with all its entries and created again.  Nothing catches an error of
\* rmtree or mkdir.
OpClear ==
    /\ DirectUse
    /\ IF storage_fails
       THEN /\ cache' \in PartialClears(cache)
            /\ last_call' = CacheCall("clear", 0, [val |-> NoneVal, raised |-> TRUE], TRUE)
            /\ UNCHANGED last_set
       ELSE /\ cache' = CacheClear(cache)
            /\ last_call' = CacheCall("clear", 0, [val |-> NoneVal, raised |-> FALSE], FALSE)
            /\ last_set' = [f \in Fingerprints |-> NoneVal]
    /\ faulted' = (faulted \/ storage_fails)
    /\ UNCHANGED storage_fails

\* The storage starts or stops failing (the disk fills, the directory loses
\* its permissions, the page can no longer be rendered for its fingerprint).
StorageFlip ==
    /\ DirectUse
    /\ storage_fails' = ~storage_fails
    /\ UNCHANGED <<cache, last_call, last_set, faulted>>

\* One batch over the cache as the direct calls, if any, have left it.
BatchCall == Call /\ last_call.op = "none" /\ nreq = 0

evars == <<available, ocr, pc, pages, use_cache, cached_results,
            remaining_indices, results, fut, ret, nreq, recognized, recognizedAgain>>

InitCache ==
    /\ InitEngine
    /\ NoExtraction
    /\ NoSegmentation
    /\ NoQuestions
    /\ storage_fails = FALSE
    /\ last_call = NoCacheCall
    /\ last_set = cache
    /\ faulted = FALSE
    /\ NoRun
    /\ NoAssessment
    /\ NoProgress
    /\ NoCleaning

NextCache ==
    \/ \E page \in Fingerprints : OpGet(page) /\ UNCHANGED <<evars, xvars, svars, qvars, mvars, avars, pvars, kvars>>
    \/ \E page \in Fingerprints : \E text \in ApiTexts(page) :
          OpSet(page, text) /\ UNCHANGED <<evars, xvars, svars, qvars, mvars, avars, pvars, kvars>>
    \/ OpClear /\ UNCHANGED <<evars, xvars, svars, qvars, mvars, avars, pvars, kvars>>
    \/ StorageFlip /\ UNCHANGED <<evars, xvars, svars, qvars, mvars, avars, pvars, kvars>>
    \/ BatchCall /\ UNCHANGED <<xvars, svars, qvars, cvars, mvars, avars, pvars, kvars>>
    \/ \E i \in DOMAIN fut : WorkerEnter(i) /\ UNCHANGED <<xvars, svars, qvars, cvars, mvars, avars, pvars, kvars>>
    \/ \E i \in DOMAIN fut : WorkerConstruct(i) /\ UNCHANGED <<xvars, svars, qvars, cvars, mvars, avars, pvars, kvars>>
    \/ \E i \in DOMAIN fut : WorkerRecognize(i) /\ UNCHANGED <<xvars, svars, qvars, cvars, mvars, avars, pvars, kvars>>
    \/ \E i \in DOMAIN fut : Collect(i) /\ UNCHANGED <<xvars, svars, qvars, cvars, mvars, avars, pvars, kvars>>
    \/ Return /\ UNCHANGED <<xvars, svars, qvars, cvars, mvars, avars, pvars, kvars>>

SpecCache == InitCache /\ [][NextCache]_vars

\* ------------------------------------------------------------------ claims on OCRCache
\* A get that met a storage error answered None, and no get or set raised.
DegradesToMiss ==
    /\ last_call.op = "get" /\ last_call.failed => last_call.val = NoneVal
    /\ last_call.op \in {"get", "set"} => ~last_call.raised

\* A set that met a storage error changed no entry.
FailedSetIsNoOp ==
    last_call' # last_call /\ last_call'.op = "set" /\ last_call'.failed
        => cache' = cache

\* The scan of a batch over a failing cache finds what it finds in an empty
\* cache: no hit, and every page a miss when the cache is consulted.
ScansAsEmpty ==
    pc = "idle" /\ pc' # "idle"
      /\ (storage_fails \/ cache = [f \in Fingerprints |-> NoneVal])
        => /\ cached_results' = <<>>
           /\ remaining_indices' = IF use_cache' THEN [i \in 1..Len(pages') |-> i]
                                   ELSE <<>>

\* A batch over a failing cache leaves the entries alone.
FailingBatchKeepsCache == storage_fails /\ pc # "idle" => cache' = cache

\* What a batch without hits returns is what its calls of the engine gave,
\* page by page; nothing of it comes from the cache.
ReturnsRecognizedTexts ==
    pc = "returned" /\ cached_results = <<>> /\ remaining_indices # <<>>
        => /\ Len(ret) = Len(pages)
           /\ \A i \in DOMAIN pages : i \in DOMAIN fut /\ ret[i] = fut[i].val

\* C17: a storage error inside OCRCache.get yields None and one inside
\* OCRCache.set changes nothing; neither raises, and a batch over a failing
\* cache splits its pages, keeps the entries and returns its texts as a
\* batch over an empty cache does.
C17_StorageErrorsDegrade ==
    /\ [](DegradesToMiss /\ ReturnsRecognizedTexts)
    /\ [][FailedSetIsNoOp /\ ScansAsEmpty /\ FailingBatchKeepsCache]_vars

\* A batch has returned the text it recognised for a page whose entry the
\* failing cache could not read, and the entry is as it was.
C17_Witness ==
    /\ pc = "returned"
    /\ storage_fails
    /\ use_cache
    /\ pages # <<>>
    /\ Len(ret) = Len(pages)
    /\ cache[pages[1]] = TextOf(pages[1])
    /\ fut[1].exc = FALSE
    /\ ret[1] = TextOf(pages[1])
    /\ cached_results = <<>>

\* Without a storage error, get answers the text of the most recent set on
\* the fingerprint since the last clear, None without one.
LastWriterWins ==
    ~faulted /\ last_call.op = "get" => last_call.val = last_set[last_call.page]

\* An entry goes only in a step of clear, and a clear that met no storage
\* error leaves no entry.
OnlyClearRemoves ==
    /\ (\E f \in Fingerprints : cache[f] # NoneVal /\ cache'[f] = NoneVal)
          => last_call'.op = "clear"
    /\ last_call' # last_call /\ last_call'.op = "clear" /\ ~last_call'.failed
          => \A f \in Fingerprints : cache'[f] = NoneVal

\* C18: after any sequence of set, get and clear without storage errors,
\* get(p) returns the text of the most recent set on p's fingerprint since the
\* last clear and None if there was none; an entry disappears only through
\* clear, which removes every entry.
C18_LastWriterWins == []LastWriterWins /\ [][OnlyClearRemoves]_vars

\* A get has answered "", which only a set has written to its page since the
\* last clear, while another page keeps its own entry.
C18_Witness ==
    /\ ~faulted
    /\ last_call.op = "get"
    /\ last_call.val = Empty
    /\ last_set[last_call.page] = Empty
    /\ \E f \in Fingerprints : f # last_call.page /\ cache[f] = TextOf(f)

\* ------------------------------------------------------------------ main
\* The documents a run can meet, by path.
Documents == 1..MaxDocuments

\* The pipeline steps of process_single_pdf, lines 131-150, in their order:
\* extract (lines 132-133), the construction of the parser with
\* identify_sections (lines 136-137), extract_questions (line 138), tag_all
\* (lines 141-142), save (lines 145-146), generate (lines 149-150).
Steps == <<"extract", "parse", "questions", "tag", "export", "analyze">>

\* pdf_files of process_batch (line 183): glob("*.pdf"), the documents of the
\* input directory itself, followed by glob("**/*.pdf"), the documents of the
\* directory and of every directory below it.
Listing(dir, nst) ==
    LET RECURSIVE Ordered(_, _)
        Ordered(S, n) == IF n = 0 THEN <<>>
                         ELSE IF n \in S THEN Append(Ordered(S, n - 1), n)
                         ELSE Ordered(S, n - 1)
    IN Ordered({d \in dir : ~nst[d]}, MaxDocuments) \o Ordered(dir, MaxDocuments)

\* The document process_single_pdf is working on.
CurrentDocument == pdf_files[file_idx]

\* process_single_pdf returns result for the current document: main returns
\* it (line 274), or process_batch files the document under success or failed
\* and goes on to the next one; after the last one it returns 0 if none
\* failed, 1 otherwise (lines 222-240).
Finish(result) ==
    LET filed == IF result = 0
                 THEN [batch_results EXCEPT !.success = Append(@, CurrentDocument)]
                 ELSE [batch_results EXCEPT !.failed = Append(@, CurrentDocument)]
    IN IF mode = "single"
       THEN /\ exit_code' = result
            /\ mpc' = "returned"
            /\ UNCHANGED <<file_idx, batch_results>>
       ELSE /\ batch_results' = filed
            /\ IF file_idx < Len(pdf_files)
               THEN /\ file_idx' = file_idx + 1
                    /\ mpc' = "validate"
                    /\ exit_code' = exit_code
               ELSE /\ file_idx' = file_idx
                    /\ mpc' = "returned"
                    /\ exit_code' = IF filed.failed = <<>> THEN 0 ELSE 1

\* main in single-file mode (lines 266-274) calls process_single_pdf(args.pdf).
StartSingle ==
    /\ mpc = "idle"
    /\ mode = "single"
    /\ \E d \in Documents :
          /\ pdf_files' = <<d>>
          /\ file_idx' = 1
          /\ mpc' = "validate"
    /\ UNCHANGED <<mode, present, nested, batch_results, exit_code, stages_run,
                   missing_reports, calls>>

\* process_batch up to its loop (lines 176-207): the directory is listed, and
\* without a document the function returns 1.
StartBatch ==
    /\ mpc = "idle"
    /\ mode = "batch"
    /\ \E dir \in SUBSET Documents :
          /\ pdf_files' = Listing(dir, nested)
          /\ IF dir = {}
             THEN /\ mpc' = "returned"
                  /\ exit_code' = 1
                  /\ file_idx' = 0
             ELSE /\ mpc' = "validate"
                  /\ exit_code' = exit_code
                  /\ file_idx' = 1
    /\ UNCHANGED <<mode, present, nested, batch_results, stages_run,
                   missing_reports, calls>>

\* process_single_pdf up to the pipeline (lines 110-127): config.validate()
\* finds the document missing, or cannot create the output directory, and 1
\* is returned after one message; or the configuration is valid.
Validate ==
    /\ mpc = "validate"
    /\ calls' = [calls EXCEPT ![CurrentDocument] = @ + 1]
    /\ IF ~present[CurrentDocument]
       THEN /\ missing_reports' = [missing_reports EXCEPT ![CurrentDocument] = @ + 1]
            /\ Finish(1)
       ELSE /\ missing_reports' = missing_reports
            /\ \/ Finish(1)
               \/ /\ mpc' = "extract"
                  /\ UNCHANGED <<file_idx, batch_results, exit_code>>
    /\ UNCHANGED <<mode, present, nested, pdf_files, stages_run>>

\* The step after a step of the pipeline; the last one is followed by the
\* return of 0 (line 154).
StepAfter(step) ==
    IF step = "extract" THEN "parse"
    ELSE IF step = "parse" THEN "questions"
    ELSE IF step = "questions" THEN "tag"
    ELSE IF step = "tag" THEN "export"
    ELSE IF step = "export" THEN "analyze"
    ELSE "done"

\* ExamParser.__init__ (parser.py lines 25-27) compiles every pattern of
\* config.OCR_QUESTION_PATTERNS: it returns a parser when the configuration
\* has the attribute and raises AttributeError when it has not.
ParserConstructs(cfg) == cfg.defined

\* The configuration process_single_pdf builds (lines 111-115) is an
\* ETLConfig.
PipelineConfig == EtlConfigOcrPatterns

\* Whether the step raises whatever the environment does: extract
\* FileNotFoundError when the document is gone (extractor.py lines 83-84),
\* the parse step AttributeError when the parser cannot be constructed.
StepAlwaysRaises(step) ==
    \/ step = "extract" /\ ~present[CurrentDocument]
    \/ step = "parse" /\ ~ParserConstructs(PipelineConfig)

\* One step of the pipeline (lines 129-164) in which the environment raises
\* nothing.  extract raises FileNotFoundError when the document is gone by
\* now, before it reads anything: one message, and 1 is returned (lines
\* 156-158).  The parse step raises when the parser cannot be constructed,
\* before any section is identified: 1 is returned (lines 159-164).  Any
\* other step runs and is followed by the next one, the last one by the
\* return of 0.
RunStep ==
    /\ mpc \in Range(Steps)
    /\ IF StepAlwaysRaises(mpc)
       THEN /\ missing_reports' = IF mpc = "extract"
                                  THEN [missing_reports EXCEPT ![CurrentDocument] = @ + 1]
                                  ELSE missing_reports
            /\ stages_run' = stages_run
            /\ Finish(1)
       ELSE /\ missing_reports' = missing_reports
            /\ stages_run' = [stages_run EXCEPT ![CurrentDocument] = @ \cup {mpc}]
            /\ IF StepAfter(mpc) = "done"
               THEN Finish(0)
               ELSE /\ mpc' = StepAfter(mpc)
                    /\ UNCHANGED <<file_idx, batch_results, exit_code>>
    /\ UNCHANGED <<mode, present, nested, pdf_files, calls>>

\* A step of the pipeline that has started raises something else (an
\* unreadable document, a full disk): 1 is returned (lines 159-164).
StepRaises ==
    /\ mpc \in Range(Steps)
    /\ ~StepAlwaysRaises(mpc)
    /\ stages_run' = [stages_run EXCEPT ![CurrentDocument] = @ \cup {mpc}]
    /\ Finish(1)
    /\ UNCHANGED <<mode, present, nested, pdf_files, missing_reports, calls>>

\* The file system under the run: a document is removed.
DocumentVanishes ==
    /\ mpc \notin {"idle", "returned"}
    /\ \E d \in Documents :
          /\ present[d]
          /\ present' = [present EXCEPT ![d] = FALSE]
    /\ UNCHANGED <<mode, nested, pdf_files, mpc, file_idx, batch_results, exit_code,
                   stages_run, missing_reports, calls>>

InitMain ==
    /\ InitEngine
    /\ cache = [f \in Fingerprints |-> NoneVal]
    /\ available = TRUE
    /\ NoExtraction
    /\ NoSegmentation
    /\ NoQuestions
    /\ StorageWorks
    /\ mode \in {"single", "batch"}
    /\ present \in [Documents -> BOOLEAN]
    /\ nested \in [Documents -> BOOLEAN]
    /\ pdf_files = <<>>
    /\ mpc = "idle"
    /\ file_idx = 0
    /\ batch_results = [success |-> <<>>, failed |-> <<>>]
    /\ exit_code = NoneVal
    /\ stages_run = [d \in Documents |-> {}]
    /\ missing_reports = [d \in Documents |-> 0]
    /\ calls = [d \in Documents |-> 0]
    /\ NoAssessment
    /\ NoProgress
    /\ NoCleaning

NextMain ==
    \/ StartSingle /\ UNCHANGED <<bvars, xvars, svars, qvars, cvars, avars, pvars, kvars>>
    \/ StartBatch /\ UNCHANGED <<bvars, xvars, svars, qvars, cvars, avars, pvars, kvars>>
    \/ Validate /\ UNCHANGED <<bvars, xvars, svars, qvars, cvars, avars, pvars, kvars>>
    \/ RunStep /\ UNCHANGED <<bvars, xvars, svars, qvars, cvars, avars, pvars, kvars>>
    \/ StepRaises /\ UNCHANGED <<bvars, xvars, svars, qvars, cvars, avars, pvars, kvars>>
    \/ DocumentVanishes /\ UNCHANGED <<bvars, xvars, svars, qvars, cvars, avars, pvars, kvars>>

SpecMain == InitMain /\ [][NextMain]_vars

\* ------------------------------------------------------------------ claims on main
ReportedMissing(d) == missing_reports[d] > 0

\* A document reported missing was reported once, in the only call made for
\* it; the run that met it returns a non-zero result; and a batch has called
\* process_single_pdf for every document it listed.
FatalOnce(docs) ==
    /\ \A d \in docs : ReportedMissing(d) => missing_reports[d] = 1 /\ calls[d] = 1
    /\ mpc = "returned" /\ (\E d \in docs : ReportedMissing(d)) => exit_code = 1
    /\ mpc = "returned" /\ mode = "batch" => \A d \in Range(pdf_files) : calls[d] >= 1

\* No step of the pipeline runs for a document that is missing: extraction
\* needs the document there, a later step needs it extracted, and none
\* follows a report.
NoStepWhenMissing ==
    \A d \in DOMAIN stages_run :
        stages_run'[d] # stages_run[d]
            => /\ ~ReportedMissing(d)
               /\ present[d] \/ "extract" \in stages_run[d]

\* C19: a missing input document is fatal for that document only: no
\* extraction, segmentation, tagging or export step runs for it, the failure
\* is reported once with a non-zero result, it is not retried, and in batch
\* mode the remaining documents are still processed.
C19_MissingDocumentFatalOnce ==
    [](FatalOnce(DOMAIN missing_reports)) /\ [][NoStepWhenMissing]_vars

\* The same of the documents that pdf_files names once: the document of a
\* single-file run, and in a batch the documents below the input directory.
ListedOnce == {d \in DOMAIN missing_reports :
                 Cardinality({i \in DOMAIN pdf_files : pdf_files[i] = d}) = 1}

MissingDocumentFatalWhenListedOnce ==
    [](FatalOnce(ListedOnce)) /\ [][NoStepWhenMissing]_vars

\* ------------------------------------------------------------------ assess_text_quality
\* The texts assess_text_quality is given, by length n, number c of
\* characters in U+4E00..U+9FFF and occurrence k of a structure keyword.
QualityTexts ==
    {NativeText(n, c, k) : n \in 0..MaxTextLength, c \in 0..MaxTextLength, k \in BOOLEAN}

\* The texts there are: c of the n characters, and a keyword needs one of them.
IsText(t) == t.c <= t.n /\ (t.k => t.c >= 1)

\* A call of assess_text_quality(text) returns; it reads text only and
\* assigns locals only.
Assess ==
    /\ quality = NotAssessed
    /\ quality' = AssessTextQuality(assessed_text)
    /\ UNCHANGED assessed_text

InitQuality ==
    /\ InitEngine
    /\ cache = [f \in Fingerprints |-> NoneVal]
    /\ NoExtraction
    /\ NoSegmentation
    /\ NoQuestions
    /\ StorageWorks
    /\ NoRun
    /\ NoProgress
    /\ NoCleaning
    /\ assessed_text \in QualityTexts
    /\ IsText(assessed_text)
    /\ quality = NotAssessed

NextQuality ==
    Assess /\ UNCHANGED <<bvars, xvars, svars, qvars, cvars, mvars, pvars, kvars>>

SpecQuality == InitQuality /\ [][NextQuality]_vars

\* ------------------------------------------------------------------ claims on assess_text_quality
\* The score num / den is a number of [0, 1].
ScoreInUnitInterval ==
    /\ quality.den > 0
    /\ 0 <= quality.num
    /\ quality.num <= quality.den

\* The score is min(c / 500, 0.4) + (c / n) * 0.3 + (0.3 if k else 0): the
\* fraction whose denominator is 1000 * n and whose numerator is the sum of
\* the three terms in thousandths, times n; num / den is that fraction,
\* expanded.
ScoreByFormula ==
    LET first == IF 2 * assessed_text.c <= 400 THEN 2 * assessed_text.c ELSE 400
        third == IF assessed_text.k THEN 300 ELSE 0
        sum == first * assessed_text.n + 300 * assessed_text.c
               + third * assessed_text.n
    IN assessed_text.n > 0 =>
          \E scale \in 1..10 :
              /\ quality.den = scale * (1000 * assessed_text.n)
              /\ quality.num = scale * sum

\* The empty text scores 0 with char_count 0.
EmptyTextIsZero == assessed_text.n = 0 => quality.num = 0 /\ quality.char_count = 0

\* The call changes nothing but its result.
AssessHasNoSideEffect ==
    quality' # quality => UNCHANGED <<bvars, xvars, svars, qvars, cvars, mvars, pvars, kvars, assessed_text>>

\* C20: assess_text_quality returns for every text, the empty one included,
\* without a side effect; its score lies in [0, 1] and is
\* min(cjk_count/500, 0.4) + cjk_ratio*0.3 + (0.3 if a structure keyword
\* occurs else 0); for the empty text score and char_count are both 0.
C20_QualityScore ==
    /\ [](quality = NotAssessed => ENABLED Assess)
    /\ [](quality # NotAssessed
            => ScoreInUnitInterval /\ ScoreByFormula /\ EmptyTextIsZero
               /\ quality.char_count = assessed_text.n)
    /\ [][AssessHasNoSideEffect]_vars

\* A text of 200 such characters with a keyword has scored exactly 1: the
\* first term is at its cap.
C20_Witness ==
    /\ quality # NotAssessed
    /\ assessed_text.c = 200
    /\ assessed_text.n = 200
    /\ assessed_text.k
    /\ quality.num = quality.den

\* ------------------------------------------------------------------ the pool: claims
\* The pool threads that are inside the PaddleOCR constructor.
Constructing == {i \in DOMAIN fut : fut[i].st = "constructing"}

\* A step in which a constructor returns and self.ocr is assigned.
ConstructorReturns(i) ==
    /\ i \in DOMAIN fut /\ i \in DOMAIN fut'
    /\ fut[i].st = "constructing"
    /\ fut'[i].st = "ready"

\* C21: under every interleaving of the pool's threads the recognition
\* engine is constructed exactly once per OCREngine, before its first use,
\* and every recognition call uses that instance: two threads are never both
\* in the constructor, and no constructor returns into a self.ocr that is
\* already set.
C21_EngineConstructedOnce ==
    /\ [](Cardinality(Constructing) <= 1)
    /\ [][\A i \in DOMAIN fut : ConstructorReturns(i) => ~ocr]_vars

\* What holds of the lazy construction: a thread calls self.ocr.ocr only once
\* self.ocr is set, and only a constructor sets it.
EngineSetBeforeUse ==
    /\ [](\A i \in DOMAIN fut : fut[i].st = "ready" => ocr)
    /\ [][(ocr' # ocr) => (ocr' /\ (SingleStep \/ \E i \in DOMAIN fut : ConstructorReturns(i)))]_vars

\* ------------------------------------------------------------------ write-back
\* What the cache directory can hold when OCRCache.set has also been called
\* from outside the engine: an entry may then be "" (here that of the first
\* fingerprint).
StoredCacheContents ==
    {c \in [Fingerprints -> {NoneVal, Empty} \cup {TextOf(f) : f \in Fingerprints}] :
        \A f \in Fingerprints :
            c[f] \in {NoneVal, TextOf(f)} \cup (IF f = 1 THEN {Empty} ELSE {})}

\* One batch on a fresh engine, over a cache that works or fails.
InitWriteBack ==
    /\ cache \in StoredCacheContents
    /\ available = TRUE
    /\ ocr = FALSE
    /\ pc = "idle"
    /\ pages = <<>>
    /\ use_cache = TRUE
    /\ cached_results = <<>>
    /\ remaining_indices = <<>>
    /\ results = <<>>
    /\ fut = <<>>
    /\ ret = <<>>
    /\ nreq = 0
    /\ recognized = {}
    /\ recognizedAgain = {}
    /\ NoExtraction
    /\ NoSegmentation
    /\ NoQuestions
    /\ storage_fails \in BOOLEAN
    /\ last_call = NoCacheCall
    /\ last_set = [f \in Fingerprints |-> NoneVal]
    /\ faulted = FALSE
    /\ NoRun
    /\ NoAssessment
    /\ NoProgress
    /\ NoCleaning

NextWriteBack ==
    \/ BatchCall /\ UNCHANGED <<xvars, svars, qvars, cvars, mvars, avars, pvars, kvars>>
    \/ \E i \in DOMAIN fut : WorkerEnter(i) /\ UNCHANGED <<xvars, svars, qvars, cvars, mvars, avars, pvars, kvars>>
    \/ \E i \in DOMAIN fut : WorkerConstruct(i) /\ UNCHANGED <<xvars, svars, qvars, cvars, mvars, avars, pvars, kvars>>
    \/ \E i \in DOMAIN fut : WorkerRecognize(i) /\ UNCHANGED <<xvars, svars, qvars, cvars, mvars, avars, pvars, kvars>>
    \/ \E i \in DOMAIN fut : Collect(i) /\ UNCHANGED <<xvars, svars, qvars, cvars, mvars, avars, pvars, kvars>>
    \/ Return /\ UNCHANGED <<xvars, svars, qvars, cvars, mvars, avars, pvars, kvars>>

SpecWriteBack == InitWriteBack /\ [][NextWriteBack]_vars

\* ------------------------------------------------------------------ write-back: claims
\* When a batch that reads the cache returns, every page it recognised with
\* a non-empty result has that result as its entry (if written says so).
WrittenBackOnReturn(written) ==
    (ReturnStep /\ use_cache /\ written) =>
        \A i \in DOMAIN fut : Truthy(ret'[i]) => cache'[pages[i]] = ret'[i]

\* The only change of the cache during a batch is the write of the non-empty
\* text a call returned without raising, under use_cache.
OnlyNonEmptyWritten ==
    (pc = "collect" /\ cache' # cache) =>
        \E i \in DOMAIN fut :
            /\ fut[i].st = "done" /\ ~fut[i].exc /\ fut[i].val # Empty
            /\ use_cache
            /\ cache' = [cache EXCEPT ![pages[i]] = fut[i].val]

\* A page whose entry is "" is queued for recognition like a page without one.
EmptyEntryIsMiss ==
    (CallStep /\ use_cache') =>
        \A i \in DOMAIN pages' :
            cache[pages'[i]] = Empty =>
                /\ \E k \in DOMAIN remaining_indices' : remaining_indices'[k] = i
                /\ \A k \in DOMAIN cached_results' : cached_results'[k][1] # i

\* A batch with use_cache false finds no hit whatever the entries are, and
\* leaves the entries alone.
CacheUnusedWhenDisabled ==
    /\ (CallStep /\ ~use_cache') => cached_results' = <<>> /\ cache' = cache
    /\ (pc = "collect" /\ ~use_cache) => cache' = cache

\* C22 as stated: with use_cache true, after the batch every recognized page
\* with a non-empty result has a cache entry equal to that result, no empty
\* or failed result is ever written and an empty entry is a miss; with
\* use_cache false the batch neither reads nor writes the cache.
C22_WriteBack ==
    [][WrittenBackOnReturn(TRUE) /\ OnlyNonEmptyWritten /\ EmptyEntryIsMiss
         /\ CacheUnusedWhenDisabled]_vars

\* C22 as amended: the same, the entry being equal to the result when the
\* write met no storage error.
C22_WriteBackUnlessStorageError ==
    [][WrittenBackOnReturn(~storage_fails) /\ OnlyNonEmptyWritten /\ EmptyEntryIsMiss
         /\ CacheUnusedWhenDisabled]_vars

\* C22's case: a batch over a working cache has returned; its first page,
\* whose entry was missing or "", was recognised and has its text as entry,
\* and its second page, whose call raised, has none.
C22_Witness ==
    /\ pc = "returned" /\ use_cache /\ ~storage_fails
    /\ pages = <<1, 2>>
    /\ DOMAIN fut = {1, 2}
    /\ ~fut[1].exc /\ ret[1] = TextOf(1) /\ cache[1] = TextOf(1)
    /\ fut[2].exc /\ ret[2] = Empty /\ cache[2] = NoneVal

\* How far the call submitted for a miss has come.
Rank(st) ==
    IF st = "queued" THEN 0
    ELSE IF st = "constructing" THEN 1
    ELSE IF st = "ready" THEN 2
    ELSE IF st = "done" THEN 3
    ELSE 4

\* The batch submits one call for each miss and none for a hit.
SubmittedOncePerMiss ==
    (CallStep /\ pc' = "collect") =>
        /\ remaining_indices' # <<>>
        /\ \A j, k \in DOMAIN remaining_indices' :
              remaining_indices'[j] = remaining_indices'[k] => j = k
        /\ DOMAIN fut' = Range(remaining_indices')
        /\ \A i \in DOMAIN fut' : fut'[i].st = "queued"
        /\ \A k \in DOMAIN cached_results' : cached_results'[k][1] \notin DOMAIN fut'

\* While the batch runs nothing is submitted again, a call only advances
\* (so it is started, run and collected once), and a step assigns at most
\* the slot of the call it collects, which was unset.
RunOncePerMiss ==
    (pc = "collect" /\ pc' = "collect") =>
        /\ DOMAIN fut' = DOMAIN fut
        /\ \A i \in DOMAIN fut : Rank(fut'[i].st) >= Rank(fut[i].st)
        /\ \A i \in DOMAIN results :
              results'[i] # results[i] \/ (i \in DOMAIN fut /\ fut'[i].st # fut[i].st
                                            /\ fut'[i].st = "collected")
                 => /\ i \in DOMAIN fut
                    /\ fut[i].st = "done" /\ fut'[i].st = "collected"
                    /\ results[i] = NoneVal
                    /\ results'[i] = fut[i].val

\* A batch that had a miss returns with every call collected and no slot
\* unset.
NoSlotUnset ==
    (pc = "returned" /\ remaining_indices # <<>>) =>
        /\ \A i \in DOMAIN fut : fut[i].st = "collected"
        /\ Len(ret) = Len(pages)
        /\ \A i \in DOMAIN ret : ret[i] # NoneVal

PoolCall ==
    /\ Idle
    /\ nreq = 0
    /\ \E n \in 0..MaxPoolPages : CallBody([j \in 1..n |-> DocFingerprint(j)], TRUE)

\* An engine that an earlier request has initialised, over an empty cache.
InitPool ==
    /\ cache = [f \in Fingerprints |-> NoneVal]
    /\ available = TRUE
    /\ ocr = TRUE
    /\ pc = "idle"
    /\ pages = <<>>
    /\ use_cache = TRUE
    /\ cached_results = <<>>
    /\ remaining_indices = <<>>
    /\ results = <<>>
    /\ fut = <<>>
    /\ ret = <<>>
    /\ nreq = 0
    /\ recognized = {}
    /\ recognizedAgain = {}
    /\ NoExtraction
    /\ NoSegmentation
    /\ NoQuestions
    /\ StorageWorks
    /\ NoRun
    /\ NoAssessment
    /\ NoProgress
    /\ NoCleaning

NextPool ==
    \/ PoolCall /\ UNCHANGED <<xvars, svars, qvars, cvars, mvars, avars, pvars, kvars>>
    \/ \E i \in DOMAIN fut : WorkerEnter(i) /\ UNCHANGED <<xvars, svars, qvars, cvars, mvars, avars, pvars, kvars>>
    \/ \E i \in DOMAIN fut : WorkerRecognize(i) /\ UNCHANGED <<xvars, svars, qvars, cvars, mvars, avars, pvars, kvars>>
    \/ \E i \in DOMAIN fut : Collect(i) /\ UNCHANGED <<xvars, svars, qvars, cvars, mvars, avars, pvars, kvars>>
    \/ Return /\ UNCHANGED <<xvars, svars, qvars, cvars, mvars, avars, pvars, kvars>>

SpecPool == InitPool /\ [][NextPool]_vars

\* C24: at every moment of a batch the number of recognition calls in
\* progress is at most max_workers, whatever the number of miss pages.
C24_BoundedPool == Cardinality(Running) <= max_workers

\* C24's case: max_workers calls are in progress and a further miss waits
\* in the queue.
C24_Witness ==
    /\ pc = "collect"
    /\ Cardinality(Running) = max_workers
    /\ \E i \in DOMAIN fut : fut[i].st = "queued"

\* ------------------------------------------------------------------ termination
others == <<xvars, svars, qvars, cvars, mvars, avars, pvars, kvars>>

\* A step of a dispatched call: each call is run by a pool thread and, by
\* assumption, completes or raises.
CallProgress ==
    \E i \in DOMAIN fut :
        (WorkerEnter(i) \/ WorkerConstruct(i) \/ WorkerRecognize(i)) /\ UNCHANGED others

\* A step of the calling thread in the as_completed loop and after it.
LoopProgress ==
    \/ \E i \in DOMAIN fut : Collect(i) /\ UNCHANGED others
    \/ Return /\ UNCHANGED others

\* A fresh engine over an empty cache.
InitBatchLive ==
    /\ InitEngine
    /\ cache = [f \in Fingerprints |-> NoneVal]
    /\ NoExtraction
    /\ NoSegmentation
    /\ NoQuestions
    /\ StorageWorks
    /\ NoRun
    /\ NoAssessment
    /\ NoProgress
    /\ NoCleaning

\* One batch whose threads are all scheduled again and again.
SpecBatchLive ==
    /\ InitBatchLive
    /\ [][NextWriteBack]_vars
    /\ WF_vars(CallProgress)
    /\ WF_vars(LoopProgress)

\* The batch returns only when no dispatched call is queued or running.
ReturnsAfterAllCalls ==
    ReturnStep => \A i \in DOMAIN fut : fut[i].st \in {"done", "collected"}

\* C25: extract_text_from_pages_batch never returns while a dispatched
\* recognition call is still running, and it eventually returns provided
\* every dispatched call eventually completes or raises.
C25_ReturnsAfterAllCalls ==
    /\ [][ReturnsAfterAllCalls]_vars
    /\ [](pc = "collect" /\ (\E i \in DOMAIN fut : fut[i].st \notin {"done", "collected"})
            => ~ENABLED (Return /\ UNCHANGED others))
    /\ (pc = "collect" ~> pc = "returned")

\* C25's case: the batch has collected one call and waits for another that
\* is still running.
C25_Witness ==
    /\ pc = "collect"
    /\ \E i \in DOMAIN fut : fut[i].st = "collected"
    /\ \E i \in DOMAIN fut : fut[i].st = "ready"

\* ------------------------------------------------------------------ progress reporting
nonengine == <<xvars, svars, qvars, cvars, mvars, avars, kvars>>

\* The call of a batch with its argument show_progress; a batch that has
\* misses prints the first progress line (lines 235-236).
ProgressCall ==
    /\ BatchCall
    /\ \E sp \in BOOLEAN :
          /\ show_progress' = sp
          /\ printed' = IF sp /\ pc' = "collect" THEN 1 ELSE 0

\* An iteration of the loop that leaves the entry alone when it reports.
ProgressCollectSkippingWrite(i) ==
    /\ pc = "collect"
    /\ fut[i].st = "done"
    /\ results' = [results EXCEPT ![SlotOf(i)] = fut[i].val]
    /\ cache' = IF Truthy(fut[i].val) /\ use_cache /\ ~show_progress
                THEN CacheSet(cache, pages[SlotOf(i)], fut[i].val)
                ELSE cache
    /\ fut' = [fut EXCEPT ![i].st = "collected"]
    /\ printed' = IF show_progress THEN printed + 1 ELSE printed
    /\ UNCHANGED <<available, ocr, pc, pages, use_cache, cached_results,
                   remaining_indices, ret, nreq, recognized, recognizedAgain,
                   show_progress>>

\* An iteration of the as_completed loop with its progress line (254-256).
ProgressCollect(i) ==
    /\ Collect(i)
    /\ printed' = IF show_progress THEN printed + 1 ELSE printed
    /\ UNCHANGED show_progress

\* The end of the batch with its closing line break (lines 262-265).
ProgressReturn ==
    /\ Return
    /\ printed' = IF show_progress THEN printed + 1 ELSE printed
    /\ UNCHANGED show_progress

\* A fresh engine that can be initialised, over any cache.
InitProgress ==
    /\ InitEngine
    /\ available = TRUE
    /\ NoExtraction
    /\ NoSegmentation
    /\ NoQuestions
    /\ StorageWorks
    /\ NoRun
    /\ NoAssessment
    /\ NoProgress
    /\ NoCleaning

NextProgress ==
    \/ ProgressCall /\ UNCHANGED nonengine
    \/ \E i \in DOMAIN fut : WorkerEnter(i) /\ UNCHANGED <<nonengine, pvars>>
    \/ \E i \in DOMAIN fut : WorkerConstruct(i) /\ UNCHANGED <<nonengine, pvars>>
    \/ \E i \in DOMAIN fut : WorkerRecognize(i) /\ UNCHANGED <<nonengine, pvars>>
    \/ \E i \in DOMAIN fut : ProgressCollect(i) /\ UNCHANGED nonengine
    \/ ProgressReturn /\ UNCHANGED nonengine

SpecProgress == InitProgress /\ [][NextProgress]_vars

\* ------------------------------------------------------------------ progress reporting: claims
\* What a batch returns, by its pages, the hits of its scan and what its
\* calls gave: nothing for no page, the hits when there is no miss, and
\* otherwise each page's own text.
ReturnedList ==
    IF pages = <<>> THEN <<>>
    ELSE IF remaining_indices = <<>> THEN SortedByIndex(cached_results)
    ELSE [i \in 1..Len(pages) |-> OwnText(i)]

\* The hits of a scan, by the entries alone.
HitsOf(c, ps, uc) ==
    {<<i, c[ps[i]]>> : i \in {j \in DOMAIN ps : uc /\ c[ps[j]] \notin {NoneVal, Empty}}}

\* With show_progress true or false: the scan finds the hits the cache
\* holds, the entries change only by the write-back of a non-empty result,
\* and the list returned is that of the pages, hits and outcomes.
SameWithOrWithoutProgress ==
    /\ CallStep => /\ Range(cached_results') = HitsOf(cache, pages', use_cache')
                   /\ cache' = cache
    /\ OnlyNonEmptyWritten
    /\ WrittenBackOnReturn(TRUE)
    /\ (pc = "collect" /\ pc' = "collect") =>
          \A i \in DOMAIN fut :
              (fut[i].st = "done" /\ fut'[i].st = "collected" /\ use_cache
                  /\ fut[i].val # Empty) => cache'[pages[i]] = fut[i].val
    /\ ReturnStep => ret' = ReturnedList /\ cache' = cache

FlaggedPages == {j \in DOMAIN doc : NeedsOcr(AssessTextQuality(doc[j].text))}

\* The step in which extract invokes the dispatcher: every page has its dict
\* by then, and the call is for the flagged pages, each once, in page order,
\* with the cache enabled.
DispatchedAfterPass1 ==
    nreq' # nreq =>
        /\ xpc = "assessed"
        /\ Len(xpages) = Len(doc)
        /\ nreq = 0
        /\ FlaggedPages # {}
        /\ use_cache'
        /\ Len(pages') = Cardinality(FlaggedPages)
        /\ Range(ocr_pages_indices) = FlaggedPages
        /\ \A j, k \in DOMAIN ocr_pages_indices :
              j < k => ocr_pages_indices[j] < ocr_pages_indices[k]
        /\ \A k \in DOMAIN pages' : pages'[k] = doc[ocr_pages_indices[k]].fp

\* Without a flagged page extract ends with the dispatcher never invoked and
\* the engine never initialised.
NothingFlaggedNothingDispatched ==
    (xpc = "done" /\ FlaggedPages = {}) => nreq = 0 /\ ~ocr /\ fut = <<>>

\* C27: every page of the document is assessed before the dispatcher is
\* invoked; the dispatcher is invoked at most once per document, with all
\* flagged pages in page order; it is not invoked at all, and no engine is
\* initialised, when no page is flagged.
C27_TwoPassOrdering ==
    /\ [](nreq <= 1)
    /\ []NothingFlaggedNothingDispatched
    /\ []((xpc = "done" /\ FlaggedPages # {}) => nreq = 1)
    /\ [][DispatchedAfterPass1]_vars

\* C27's case: a document of three pages whose first and third are flagged
\* has been extracted with one call of the dispatcher for these two.
C27_Witness ==
    /\ xpc = "done"
    /\ Len(doc) = 3
    /\ FlaggedPages = {1, 3}
    /\ nreq = 1
    /\ pages = <<doc[1].fp, doc[3].fp>>

\* ------------------------------------------------------------------ identify_sections: the sections of a stream
\* The stripped non-empty lines of a page, each with the page's provenance.
RECURSIVE TaggedLines(_, _)
TaggedLines(ls, src) ==
    IF ls = <<>> THEN <<>>
    ELSE (IF Strip(Head(ls)) = <<>> THEN <<>>
          ELSE <<[line |-> Strip(Head(ls)), source |-> src]>>)
         \o TaggedLines(Tail(ls), src)

RECURSIVE TaggedStream(_)
TaggedStream(ps) ==
    IF ps = <<>> THEN <<>>
    ELSE TaggedLines(Head(ps).lines, Head(ps).source) \o TaggedStream(Tail(ps))

\* The lines the loop has consumed so far.
SeenLines ==
    IF cursor[1] > Len(pages_text) THEN TaggedStream(pages_text)
    ELSE TaggedStream(SubSeq(pages_text, 1, cursor[1] - 1))
         \o TaggedLines(SubSeq(pages_text[cursor[1]].lines, 1, cursor[2] - 1),
                        pages_text[cursor[1]].source)

PaperBoundaries(ts) == {j \in DOMAIN ts : IsPaperBoundary(ts[j].line)}

\* The stream from its first paper boundary on.
FromFirstPaper(ts) ==
    IF PaperBoundaries(ts) = {} THEN <<>>
    ELSE LET first == CHOOSE j \in PaperBoundaries(ts) :
                          \A n \in PaperBoundaries(ts) : j <= n
         IN SubSeq(ts, first, Len(ts))

\* The places where a section starts: a content line right after a boundary,
\* under a paper.
Runs(ts) ==
    {i \in 2..Len(ts) :
        /\ ~IsBoundary(ts[i].line)
        /\ IsBoundary(ts[i - 1].line)
        /\ \E j \in 1..(i - 1) : IsPaperBoundary(ts[j].line)}

NthRun(ts, k) == CHOOSE i \in Runs(ts) : Cardinality({r \in Runs(ts) : r < i}) = k - 1

\* The last content line of the run that starts at i.
RunEnd(ts, i) ==
    CHOOSE e \in i..Len(ts) :
        /\ \A n \in i..e : ~IsBoundary(ts[n].line)
        /\ e = Len(ts) \/ IsBoundary(ts[e + 1].line)

\* The paper boundary a run lies under.
PaperOf(ts, i) ==
    CHOOSE j \in PaperBoundaries(ts) :
        /\ j < i
        /\ \A n \in PaperBoundaries(ts) : n < i => n <= j

\* The section of the run at i: the paper of the last paper boundary, the
\* numeral of the type boundary that opens the run, or 'Unknown' when a paper
\* boundary opens it, the lines of the run, and the provenance of the page
\* holding the boundary that opens it.
SectionOfRun(ts, i) ==
    [paper |-> <<"juan", PaperGroup1(ts[PaperOf(ts, i)].line)>>,
     type |-> IF IsPaperBoundary(ts[i - 1].line) THEN Unknown
              ELSE <<ts[i - 1].line[1]>>,
     content |-> [n \in 1..(RunEnd(ts, i) - i + 1) |-> ts[i + n - 1].line],
     source |-> ts[i - 1].source]

SectionsOf(ts) == [k \in 1..Cardinality(Runs(ts)) |-> SectionOfRun(ts, NthRun(ts, k))]

\* C28: every line before the first paper-boundary line is discarded. While
\* no paper boundary has been consumed nothing is collected and nothing is
\* emitted, and the sections returned are those of the stream from its first
\* paper boundary on: no earlier line is in a section, and no earlier type
\* boundary shows in a section's type or provenance.
C28_LinesBeforeFirstPaperDiscarded ==
    /\ (spc = "loop" /\ PaperBoundaries(SeenLines) = {}) =>
          /\ sections = <<>>
          /\ current_content = <<>>
          /\ current_paper = NoneStr
    /\ spc = "done" => sections = SectionsOf(FromFirstPaper(TaggedStream(pages_text)))

\* C28's case: a page recognised by the engine with a type boundary and a
\* content line, then a native page with a paper boundary and a content
\* line; the one section is of unknown type and native.
C28_Witness ==
    /\ spc = "done"
    /\ TaggedStream(pages_text)
         = << [line |-> YiXuanZeTi, source |-> "ocr"],
              [line |-> QuestionB, source |-> "ocr"],
              [line |-> JuanYi, source |-> "pdfplumber_fallback"],
              [line |-> QuestionB, source |-> "pdfplumber_fallback"] >>
    /\ sections = << [paper |-> JuanYi, type |-> Unknown, content |-> <<QuestionB>>,
                      source |-> "pdfplumber_fallback"] >>

\* The step that consumes a paper-boundary line.
PaperStep ==
    /\ AtLine
    /\ IsPaperBoundary(CurrentLine)
    /\ cursor' # cursor

\* C29: a paper-boundary line always resets the current type to unset, also
\* when it names the active paper; a section whose content follows a paper
\* boundary with no type boundary in between has the type 'Unknown'.
C29_PaperResetsType ==
    /\ [][PaperStep => current_type' = NoneStr]_vars
    /\ [](\A k \in DOMAIN sections :
             LET ts == TaggedStream(pages_text)
                 i == NthRun(ts, k)
             IN IsPaperBoundary(ts[i - 1].line) => sections[k].type = Unknown)

\* C29's case: paper yi with a section of type yi, then paper yi again
\* followed at once by content, which is emitted with the type 'Unknown'.
C29_Witness ==
    /\ spc = "done"
    /\ LineStream(pages_text) = <<JuanYi, YiXuanZeTi, QuestionA, JuanYi, QuestionB>>
    /\ Len(sections) = 2
    /\ sections[1].paper = JuanYi /\ sections[1].type = <<"yi">>
    /\ sections[2].paper = JuanYi /\ sections[2].type = Unknown
    /\ sections[2].content = <<QuestionB>>

\* C30: the provenance of every emitted section is the provenance of the page
\* holding the paper or type boundary that started the section, whatever the
\* provenance of the pages its content lines come from.
C30_ProvenanceOfStartingBoundary ==
    \A k \in DOMAIN sections :
        LET ts == TaggedStream(pages_text)
            i == NthRun(ts, k)
        IN /\ k <= Cardinality(Runs(ts))
           /\ sections[k].source = ts[i - 1].source

\* C30's case: a page recognised by the engine ends with a type boundary and
\* the content follows on a native page; the section is of the engine's page.
C30_Witness ==
    /\ spc = "done"
    /\ TaggedStream(pages_text)
         = << [line |-> JuanEr, source |-> "ocr"],
              [line |-> ErTianKongTi, source |-> "ocr"],
              [line |-> QuestionA, source |-> "pdfplumber"] >>
    /\ sections = << [paper |-> JuanEr, type |-> <<"er">>, content |-> <<QuestionA>>,
                      source |-> "ocr"] >>

\* ------------------------------------------------------------------ identify_sections: the partition
\* The content lines of a list of sections, one after the other.
RECURSIVE ContentsInOrder(_)
ContentsInOrder(secs) ==
    IF secs = <<>> THEN <<>> ELSE Head(secs).content \o ContentsInOrder(Tail(secs))

\* The lines of a stream that are no boundary, in order.
RECURSIVE ContentLines(_)
ContentLines(ts) ==
    IF ts = <<>> THEN <<>>
    ELSE (IF IsBoundary(Head(ts).line) THEN <<>> ELSE <<Head(ts).line>>)
         \o ContentLines(Tail(ts))

\* C31: identify_sections partitions the stream in order. At every point the
\* content of the sections emitted so far, followed by the content being
\* collected, is the sequence of the stripped non-empty non-boundary lines
\* consumed after the first paper boundary, and on return the content of the
\* sections alone is that sequence for the whole stream: nothing is lost,
\* duplicated or reordered.
C31_PartitionInOrder ==
    /\ spc = "loop" =>
          ContentsInOrder(sections) \o current_content
              = ContentLines(FromFirstPaper(SeenLines))
    /\ spc = "done" =>
          ContentsInOrder(sections)
              = ContentLines(FromFirstPaper(TaggedStream(pages_text)))

\* C31's case: two pages that each hold two papers with one content line;
\* four sections are returned, their contents in stream order, a line that
\* occurs twice in the stream occurring twice in the sections.
C31_Witness ==
    /\ spc = "done"
    /\ Len(sections) = 4
    /\ ContentsInOrder(sections) = <<QuestionA, QuestionB, QuestionA, QuestionB>>
    /\ sections[2].paper = JuanEr
    /\ sections[3].paper = JuanYi

\* ------------------------------------------------------------------ identify_sections: classification
\* How many of the four branches of the loop body take the line at the cursor.
BranchesTaken ==
    Cardinality({b \in {"blank", "paper", "type", "content"} :
        \/ b = "blank" /\ ENABLED SegBlank
        \/ b = "paper" /\ ENABLED SegPaper
        \/ b = "type" /\ ENABLED SegType
        \/ b = "content" /\ ENABLED SegContent})

\* The branch for a line is the first of: empty, paper boundary, type
\* boundary, content.
ClassifiedInOrder ==
    AtLine =>
        /\ ENABLED SegBlank <=> CurrentLine = <<>>
        /\ ENABLED SegPaper <=> (CurrentLine # <<>> /\ IsPaperBoundary(CurrentLine))
        /\ ENABLED SegType <=>
              (CurrentLine # <<>> /\ ~IsPaperBoundary(CurrentLine)
                  /\ TypeMatches(CurrentLine))
        /\ ENABLED SegContent <=>
              (CurrentLine # <<>> /\ ~IsPaperBoundary(CurrentLine)
                  /\ ~TypeMatches(CurrentLine))

PlainContent(raw) == StripSpace(CollapseSpace(StripSpace(raw)))

\* The step that handles one match of a section that is not of provenance
\* 'ocr': the candidate is the plain content, filtered and truncated.
PlainMatchStep ==
    (section.source # "ocr" /\ qpc = "matching" /\ CurrentMatch # NoMatch) =>
        LET q_content == PlainContent(CurrentMatch.content)
        IN IF Len(q_content) >= MIN_CONTENT_LENGTH /\ ~IsJunk(q_content)
           THEN questions' = Append(questions,
                    [Paper_ID |-> section.paper,
                     Question_Type |-> section.type,
                     Question_Number |-> CurrentMatch.num,
                     Content |-> SubSeq(q_content, 1,
                                        Min(Len(q_content), max_content_length))])
           ELSE questions' = questions

\* The glyphs of a text, in order.
GlyphsOf(s) == SelectSeq(s, LAMBDA ch : ch \in Glyphs)

\* C32: the correction table is applied only to sections of provenance
\* 'ocr'. For a section of provenance 'pdfplumber' or 'pdfplumber_fallback'
\* each match yields the matched text trimmed, whitespace-collapsed, filtered
\* and truncated, and nothing else: the OCR-tolerant pattern list is not read,
\* and the content of an untruncated record holds the glyphs of the matched
\* text as they were, and no '(' or ')' the section did not hold.
C32_CorrectionsOnlyForOcr ==
    /\ [][PlainMatchStep]_vars
    /\ [](section.source # "ocr" => qpc # "raised")
    /\ []((section.source # "ocr" /\ qpc # "start") =>
             /\ patterns_to_use = QUESTION_PATTERNS
             /\ \A k \in DOMAIN questions :
                   /\ \A n \in DOMAIN questions[k].Content :
                         questions[k].Content[n] \in {"(", ")"} =>
                             \E i \in DOMAIN section.content :
                                 section.content[i] = questions[k].Content[n]
                   /\ q_trace[k].clean = PlainContent(q_trace[k].clean)
                   /\ questions[k].Content = SubSeq(q_trace[k].clean, 1,
                          Min(Len(q_trace[k].clean), max_content_length)))

\* C32's case: a section of provenance 'pdfplumber_fallback' whose question
\* holds two circled digits has yielded one record with both digits in it.
C32_Witness ==
    /\ qpc = "returned"
    /\ section.source = "pdfplumber_fallback"
    /\ section.content = ContentGeneticAlgorithm
    /\ max_content_length = MAX_CONTENT_LENGTH
    /\ Len(questions) = 1
    /\ questions[1].Content = SubSeq(ContentGeneticAlgorithm, 4, Len(ContentGeneticAlgorithm))
    /\ GlyphsOf(questions[1].Content) = <<"c1", "c2">>

\* ------------------------------------------------------------------ the pipeline
\* The runs in which the environment raises nothing once the pipeline is
\* entered: no document vanishes and no step meets an error of its own.
NextPipeline ==
    \/ StartSingle /\ UNCHANGED <<bvars, xvars, svars, qvars, cvars, avars, pvars, kvars>>
    \/ StartBatch /\ UNCHANGED <<bvars, xvars, svars, qvars, cvars, avars, pvars, kvars>>
    \/ Validate /\ UNCHANGED <<bvars, xvars, svars, qvars, cvars, avars, pvars, kvars>>
    \/ RunStep /\ UNCHANGED <<bvars, xvars, svars, qvars, cvars, avars, pvars, kvars>>

SpecPipeline == InitMain /\ [][NextPipeline]_vars

\* process_single_pdf has returned 0 for the current document.
ReturnsZero ==
    IF mode = "single"
    THEN mpc' = "returned" /\ exit_code' = 0
    ELSE batch_results'.success = Append(batch_results.success, CurrentDocument)

\* Each stage is followed by the next one in the order of Steps, and the last
\* one by the return of 0.
NextStageFollows ==
    (mpc \in Range(Steps) /\ mpc' # mpc) =>
        IF mpc = "analyze" THEN ReturnsZero ELSE mpc' = StepAfter(mpc)

\* C33: for a document that exists and whose page extraction raises no error,
\* process_single_pdf reaches every stage in the order extraction, section
\* segmentation, question extraction, tagging, export, reporting, and returns
\* 0: the parser is constructed from the configuration, each stage is followed
\* by the next, and a single-file run that has extracted its document ends
\* with every stage run and the result 0.
C33_AllStagesInOrder ==
    /\ [][NextStageFollows]_vars
    /\ []((mode = "single" /\ mpc = "returned"
              /\ "extract" \in stages_run[CurrentDocument]) =>
             /\ exit_code = 0
             /\ stages_run[CurrentDocument] = Range(Steps))

\* What process_single_pdf does instead: a run that has extracted its
\* document ends with no other stage run and the result 1.
PipelineStopsAtParser ==
    (mpc = "returned" /\ mode = "single" /\ "extract" \in stages_run[CurrentDocument]) =>
        /\ exit_code = 1
        /\ stages_run[CurrentDocument] = {"extract"}

\* ------------------------------------------------------------------ the batch: who touches the cache
\* A step of the submitted call i, on its pool thread.
WorkerStepOf(i) ==
    /\ fut[i].st \in {"queued", "constructing", "ready"}
    /\ fut'[i] # fut[i]

\* A submitted call neither writes the cache nor answers from it: a call that
\* ends without reaching the engine returns "".
WorkersLeaveCacheAlone ==
    \A i \in DOMAIN fut \cap DOMAIN fut' :
        WorkerStepOf(i) =>
            /\ cache' = cache
            /\ (fut[i].st = "queued" /\ fut'[i].st = "done") =>
                   fut'[i].val = Empty /\ fut'[i].exc

\* The cache changes during a batch only in an iteration of the collecting
\* loop, for the page whose result the iteration stores.
WritesWhileCollecting ==
    (pc = "collect" /\ cache' # cache) =>
        \E i \in DOMAIN fut :
            /\ fut[i].st = "done" /\ fut'[i].st = "collected"
            /\ results'[i] = fut[i].val
            /\ cache' = [cache EXCEPT ![pages[i]] = fut[i].val]

\* The cache is read before the calls are submitted: the step that submits
\* them fixes the hits and the misses by what get answers at that moment,
\* and they stay as they are while the calls run and are collected.
ReadsBeforeSubmission ==
    /\ (fut = <<>> /\ fut' # <<>>) =>
          /\ cache' = cache
          /\ \A j \in DOMAIN pages' :
                IF Truthy(CacheGet(cache, pages'[j]))
                THEN results'[j] = CacheGet(cache, pages'[j]) /\ j \notin DOMAIN fut'
                ELSE results'[j] = NoneVal /\ j \in DOMAIN fut'
    /\ pc = "collect" => UNCHANGED <<cached_results, remaining_indices>>

\* C34: during extract_text_from_pages_batch the cache is accessed only by
\* the calling thread: it is read before any call is submitted, written in
\* the iterations of the collecting loop, and never read or written by a
\* submitted call.
C34_CacheOnCallingThreadOnly ==
    [][WorkersLeaveCacheAlone /\ WritesWhileCollecting /\ ReadsBeforeSubmission]_vars

\* C34's case: a batch holds the same page twice; the result of one call has
\* been collected and written while the call of the other is at the engine.
C34_Witness ==
    /\ pc = "collect"
    /\ pages = <<1, 1>>
    /\ fut[1].st = "collected"
    /\ cache[1] = TextOf(1)
    /\ fut[2].st = "ready"

\* ------------------------------------------------------------------ assess_text_quality: who is flagged
\* C35: a native text of at least 50 characters that holds a structure
\* keyword scores at least 0.3 and is not flagged for recognition; a native
\* text that is empty or shorter than 50 characters is flagged, whatever its
\* score.
C35_KeywordPagesKeptShortPagesFlagged ==
    quality # NotAssessed =>
        /\ (assessed_text.n >= 50 /\ assessed_text.k) =>
              /\ 10 * quality.num >= 3 * quality.den
              /\ ~NeedsOcr(quality)
        /\ assessed_text.n < 50 => NeedsOcr(quality)

\* C35's case: a text of 49 characters, all of them Chinese, with a keyword
\* scores above the threshold and is flagged all the same.
C35_Witness ==
    /\ quality # NotAssessed
    /\ assessed_text = NativeText(49, 49, TRUE)
    /\ 10 * quality.num > 3 * quality.den
    /\ NeedsOcr(quality)

\* ------------------------------------------------------------------ _clean_ocr_content
\* The characters the contents given to _clean_ocr_content are made of: the
\* letters and the space of the first two corrections, a circled digit, and a
\* character no correction knows.
CleanAlphabet == {"O", " ", "l", "c1", "ti"}

CleanInputs == SeqsUpTo(CleanAlphabet, MaxCleanLength)

\* _clean_ocr_content(content) returns.
CleanCall ==
    /\ clean_ret = <<>>
    /\ clean_ret' = <<CleanOcrContent(clean_arg)>>
    /\ UNCHANGED clean_arg

\* _clean_ocr_content is called on the value it has just returned.
CleanAgain ==
    /\ Len(clean_ret) = 1
    /\ clean_ret' = Append(clean_ret, CleanOcrContent(clean_ret[1]))
    /\ UNCHANGED clean_arg

InitClean ==
    /\ InitEngine
    /\ cache = [f \in Fingerprints |-> NoneVal]
    /\ available = TRUE
    /\ NoExtraction
    /\ NoSegmentation
    /\ NoQuestions
    /\ StorageWorks
    /\ NoRun
    /\ NoAssessment
    /\ NoProgress
    /\ clean_arg \in CleanInputs
    /\ clean_ret = <<>>

NextClean ==
    \/ CleanCall /\ UNCHANGED <<bvars, xvars, svars, qvars, cvars, mvars, avars, pvars>>
    \/ CleanAgain /\ UNCHANGED <<bvars, xvars, svars, qvars, cvars, mvars, avars, pvars>>

SpecClean == InitClean /\ [][NextClean]_vars

\* Whether a left-hand side of the correction table occurs in s.
HoldsLeftHandSide(s) ==
    \E k \in DOMAIN Corrections : \E i \in DOMAIN s : OccursAt(s, Corrections[k][1], i)

\* C37: _clean_ocr_content is idempotent: what it returns holds no left-hand
\* side of the correction table, and a second application returns it
\* unchanged.
C37_CleanIsIdempotent ==
    /\ Len(clean_ret) >= 1 => ~HoldsLeftHandSide(clean_ret[1])
    /\ Len(clean_ret) = 2 => clean_ret[2] = clean_ret[1]

\* Two occurrences of ' l ' that share a space.
SharedSpace(s) ==
    \E i \in DOMAIN s : OccursAt(s, <<" ", "l", " ", "l", " ">>, i)

\* What holds of _clean_ocr_content: it is idempotent on every content in
\* which no two occurrences of ' l ' share a space, and on the others the
\* first call leaves an ' l ' that the second one corrects.
CleanIsIdempotentWithoutSharedSpace ==
    /\ (Len(clean_ret) >= 1 /\ ~SharedSpace(clean_arg)) => ~HoldsLeftHandSide(clean_ret[1])
    /\ (Len(clean_ret) = 2 /\ ~SharedSpace(clean_arg)) => clean_ret[2] = clean_ret[1]
    /\ (Len(clean_ret) = 2 /\ clean_arg = <<" ", "l", " ", "l", " ">>) =>
          /\ clean_ret[1] = <<" ", "1", " ", "l", " ">>
          /\ clean_ret[2] = <<" ", "1", " ", "1", " ">>

====
